---- MODULE Spec2Model ----
(***************************************************************************)
(* Presence and real-time fanout core of the global chat backend:          *)
(* sockets/socketHandler.js (presence registry, room index, rate limiter,  *)
(* send handlers, disconnect cleanup, periodic reconciler) together with   *)
(* the HTTP send routes of routes/chat.js and the ChatRoom / User models.   *)
(*                                                                         *)
(* Node runs every handler on one event loop: the code between two awaits  *)
(* is one atomic step, and handlers interleave at their awaits.  Each      *)
(* action below is one such step; a durable operation takes effect in the  *)
(* step that resumes the handler awaiting it.                              *)
(***************************************************************************)
EXTENDS Integers, Sequences, FiniteSets, Bags, TLC

-----------------------------------------------------------------------------
(* CONFIG of sockets/socketHandler.js *)

MESSAGE_MAX_LENGTH == 2000

OFFLINE_THRESHOLD == 5 * 60 * 1000

CLEANUP_INTERVAL == 60000

RATE_LIMIT_WINDOW == 60000

RATE_LIMIT_MAX_MESSAGES == 30

-----------------------------------------------------------------------------
(* Bounds of the model *)

\* clock advances per behaviour
MaxTicks == 2

\* HTTP requests and events with valid content per behaviour
MaxEvents == 2

\* handlers in flight (awaiting a durable operation) at one time
MaxTasks == 2

\* events with valid content per behaviour of the burst scenario (SpecBurst)
MaxBurst == 1

\* messages sent per behaviour of the presence scenario (SpecPresence)
MaxPosts == 1

-----------------------------------------------------------------------------
(* The population: user documents, and the connections that are opened.    *)

Users == {"u1", "u2"}

\* a well-formed identifier that refers to no user document
NoUser == "nobody"

Sockets == {"s1", "s2", "s3"}

\* socket.userId, set by authenticateSocket
SocketUser(s) == IF s = "s2" THEN "u2" ELSE "u1"

\* a well-formed room identifier that refers to no ChatRoom document
NoRoom == 0

VARIABLES
    clock,          \* Date.now()
    ticks,          \* clock advances so far
    nEvents,        \* inbound events and requests so far
    sockets,        \* io.sockets.sockets: the live connections
    conn,           \* position of handleConnection for each connection
    socketRooms,    \* rooms each connection has joined (socket.join)
    connectedUsers, \* Map userId -> connection metadata, in insertion order
    rateLimitStore, \* Map userId -> {messages, lastReset}
    roomUsers,      \* Map roomId -> Set of userId
    dbUsers,        \* User documents: isOnline, socketId, lastSeen
    dbRooms,        \* ChatRoom documents, _id = index
    dbMessages,     \* Message documents, _id = index
    tasks,          \* handlers in flight, each awaiting a durable operation
    sweep,          \* the cleanup interval callback, when it is running
    accepted,       \* per user: times of the checkRateLimit calls of the
                    \* current session that returned true, last window only
    out             \* events emitted by the last step

vars == <<clock, ticks, nEvents, sockets, conn, socketRooms, connectedUsers,
          rateLimitStore, roomUsers, dbUsers, dbRooms, dbMessages, tasks,
          sweep, accepted, out>>

-----------------------------------------------------------------------------
(* JavaScript Map, kept as the sequence of its entries in insertion order  *)
(* (connectedUsers), or as a function on its keys (the other two maps).    *)

MapKeys(m) == {m[i].key : i \in DOMAIN m}

MapHas(m, k) == k \in MapKeys(m)

MapGet(m, k) == m[CHOOSE i \in DOMAIN m : m[i].key = k]

\* Map.prototype.set: an existing key keeps its position
MapSet(m, e) ==
    IF MapHas(m, e.key)
    THEN [i \in DOMAIN m |-> IF m[i].key = e.key THEN e ELSE m[i]]
    ELSE Append(m, e)

MapDelete(m, k) == SelectSeq(m, LAMBDA e : e.key # k)

FnDelete(f, k) == [x \in DOMAIN f \ {k} |-> f[x]]

FnSet(f, k, v) == [x \in DOMAIN f \cup {k} |-> IF x = k THEN v ELSE f[x]]

-----------------------------------------------------------------------------
(* Outbound events.  One record per (recipient connection, event).         *)

Payload(msg, own, typ, text, who) ==
    [msg |-> msg, own |-> own, typ |-> typ, text |-> text, who |-> who]

\* {type: "<chat>_message", message: transformedMessage}
PMessage(tm) == Payload(tm.id, tm.isOwnMessage, tm.chatType, "", tm.senderId)

\* {message, type}
PError(text, typ) == Payload(0, FALSE, typ, text, "")

\* {userId, ...} of user_joined / user_left
PUser(who) == Payload(0, FALSE, "", "", who)

\* {users, count} of online_users
PCount(n) == Payload(n, FALSE, "", "", "")

Event(to, ev, p) == [to |-> to, ev |-> ev, p |-> p]

\* socket.emit: reaches the connection only while it is live
SocketEmit(s, ev, p) == IF s \in sockets THEN {Event(s, ev, p)} ELSE {}

\* io.emit: every live connection of the namespace
IoEmit(ev, p) == {Event(s, ev, p) : s \in sockets}

\* socket.broadcast.emit: every live connection but this one
BroadcastEmit(s, ev, p) == {Event(r, ev, p) : r \in sockets \ {s}}

\* io.to(room).emit: the live connections that joined the room
RoomEmit(joined, room, ev, p) ==
    {Event(s, ev, p) : s \in {r \in sockets : room \in joined[r]}}

\* res.status(code).json(...) of an HTTP route, to the requesting user
Response(userId, code, msg) ==
    {Event("http", "response", Payload(msg, FALSE, code, "", userId))}

\* room names `group_${id}` and `private_${id}`
RoomName(type, id) == <<type, id>>

-----------------------------------------------------------------------------
\* handleConnection of a connection: where it is, the time its setOnline was
\* called, and whether its user had a presence entry when it registered
Idle == [pc |-> "none", t |-> 0, was |-> FALSE]

\* the interval callback: idle since `last`, or at `pc` with its threshold, the
\* keys its Map iterator has passed, and the user it is cleaning up
\* the reconciler callback: where it is, when it last fired, its threshold, the
\* keys behind its iterator, the user it is cleaning up, and the number of
\* presence entries it has deleted since it fired (kept until it is done)
NoSweep ==
    [pc |-> "idle", last |-> 0, thr |-> 0, seen |-> {}, cur |-> "", t |-> 0,
     evicted |-> 0]

Init ==
    /\ clock = 0
    /\ ticks = 0
    /\ nEvents = 0
    /\ sockets = {}
    /\ conn = [s \in Sockets |-> Idle]
    /\ socketRooms = [s \in Sockets |-> {}]
    /\ connectedUsers = <<>>
    /\ rateLimitStore = <<>>
    /\ roomUsers = <<>>
    /\ dbUsers = [u \in Users |-> [isOnline |-> FALSE, socketId |-> "", lastSeen |-> 0]]
    /\ \E ps \in {{"u1"}, {"u1", "u2"}} :
          dbRooms = << [type |-> "group", participants |-> ps, lastMessage |-> 0] >>
    /\ dbMessages = <<>>
    /\ tasks = EmptyBag
    /\ sweep = NoSweep
    /\ accepted = [u \in Users |-> <<>>]
    /\ out = {}

-----------------------------------------------------------------------------
(* Room Membership Index *)

addUserToRoom(ru, roomId, userId) ==
    IF roomId \in DOMAIN ru
    THEN [ru EXCEPT ![roomId] = @ \cup {userId}]
    ELSE FnSet(ru, roomId, {userId})

\* a removal that leaves the entry of an emptied room in the index
removeUserFromRoom_KeepsEmpty(ru, roomId, userId) ==
    IF roomId \in DOMAIN ru
    THEN [ru EXCEPT ![roomId] = @ \ {userId}]
    ELSE ru

removeUserFromRoom(ru, roomId, userId) ==
    IF roomId \in DOMAIN ru
    THEN IF ru[roomId] \ {userId} = {}
         THEN FnDelete(ru, roomId)
         ELSE [ru EXCEPT ![roomId] = @ \ {userId}]
    ELSE ru

RECURSIVE AddToRooms(_, _, _)
AddToRooms(ru, rooms, userId) ==
    IF rooms = {} THEN ru
    ELSE LET r == CHOOSE x \in rooms : TRUE
         IN  AddToRooms(addUserToRoom(ru, r, userId), rooms \ {r}, userId)

\* the loop of cleanupUserSession over roomUsers.entries()
RECURSIVE RemoveFromRooms(_, _, _)
RemoveFromRooms(ru, rooms, userId) ==
    IF rooms = {} THEN ru
    ELSE LET r == CHOOSE x \in rooms : TRUE
         IN  RemoveFromRooms(removeUserFromRoom(ru, r, userId), rooms \ {r}, userId)

-----------------------------------------------------------------------------
(* Durable queries *)

\* a query for the rooms of a type that leaves the participants out
RoomsOf_AnyParticipant(userId, type) ==
    {i \in DOMAIN dbRooms : dbRooms[i].type = type}

\* ChatRoom.find({participants: userId, type})
RoomsOf(userId, type) ==
    {i \in DOMAIN dbRooms :
        dbRooms[i].type = type /\ userId \in dbRooms[i].participants}

\* User.find({isOnline: true}) / User.countDocuments({isOnline: true})
OnlineCount == Cardinality({u \in Users : dbUsers[u].isOnline})

\* userSchema.methods.setOnline, as written by its save()
setOnline(socketId, t) == [isOnline |-> TRUE, socketId |-> socketId, lastSeen |-> t]

\* userSchema.methods.updateLastSeen, as written by its save()
updateLastSeen(t) == [isOnline |-> FALSE, socketId |-> "", lastSeen |-> t]

-----------------------------------------------------------------------------
(* Connection lifecycle: handleConnection *)

\* setupEventHandlers has run: inbound events and disconnect are handled
HandlersSet(s) == conn[s].pc \in {"joinGroups", "joinPrivate", "announce", "active"}

\* a connection passes authenticateSocket; handleConnection runs up to
\* `await user.setOnline(socket.id)`
Connect(s) ==
    /\ conn[s].pc = "none"
    /\ sockets' = sockets \cup {s}
    /\ conn' = [conn EXCEPT ![s].pc = "setOnline", ![s].t = clock]
    /\ out' = {}
    /\ UNCHANGED <<clock, ticks, nEvents, socketRooms, connectedUsers,
                   rateLimitStore, roomUsers, dbUsers, dbRooms, dbMessages,
                   tasks, sweep,
                   accepted>>

\* what a client presents in its handshake: the token, and what
\* User.findById finds for the user id of its payload
Credential(token, found, status) == [token |-> token, found |-> found, status |-> status]

Credentials ==
    {Credential(token, found, status) :
        token \in {"none", "malformed", "expired", "notBefore", "valid"},
        found \in BOOLEAN, status \in {"active", "banned"}}

\* a middleware that verifies the signature of the token and not its dates
authenticateSocket_IgnoresExpiry(cred) ==
    IF cred.token = "none" THEN "Authentication error: No token provided"
    ELSE IF cred.token = "malformed" THEN "Invalid token format"
    ELSE IF ~cred.found THEN "Authentication failed: User not found"
    ELSE IF cred.status = "banned" THEN "Account suspended"
    ELSE "ok"

\* authenticateSocket: "ok" for next(), else the message of the Error it
\* passes to next
authenticateSocket(cred) ==
    IF cred.token = "none" THEN "Authentication error: No token provided"
    ELSE IF cred.token = "malformed" THEN "Invalid token format"
    ELSE IF cred.token = "expired" THEN "Token has expired"
    ELSE IF cred.token = "notBefore" THEN "Token not yet valid"
    ELSE IF ~cred.found THEN "Authentication failed: User not found"
    ELSE IF cred.status = "banned" THEN "Account suspended"
    ELSE "ok"

\* the handshake of connection s: io.use(authenticateSocket), and
\* handleConnection only after next() without an error
Handshake(s, cred) ==
    IF authenticateSocket(cred) = "ok"
    THEN Connect(s)
    ELSE /\ conn[s].pc = "none"
         /\ conn' = [conn EXCEPT ![s].pc = "refused"]
         /\ out' = {}
         /\ UNCHANGED <<clock, ticks, nEvents, sockets, socketRooms,
                        connectedUsers, rateLimitStore, roomUsers, dbUsers,
                        dbRooms, dbMessages, tasks, sweep, accepted>>

\* initializeUserSession after the save; setupEventHandlers; joinUserRooms up
\* to its first ChatRoom.find
initializeUserSession(s) ==
    LET userId == SocketUser(s) IN
    /\ conn[s].pc = "setOnline"
    /\ dbUsers' = [dbUsers EXCEPT ![userId] = setOnline(s, conn[s].t)]
    /\ connectedUsers' = MapSet(connectedUsers,
            [key |-> userId, socketId |-> s, messageCount |-> 0, lastActivity |-> clock])
    /\ rateLimitStore' = FnSet(rateLimitStore, userId,
            [messages |-> <<>>, lastReset |-> clock])
    /\ conn' = [conn EXCEPT ![s] = [pc |-> "joinGroups", t |-> 0,
                                    was |-> MapHas(connectedUsers, userId)]]
    /\ accepted' = [accepted EXCEPT ![userId] = <<>>]
    /\ out' = {}
    /\ UNCHANGED <<clock, ticks, nEvents, sockets, socketRooms, roomUsers,
                   dbRooms, dbMessages, tasks, sweep>>

\* joinUserRooms: the group rooms found, joined and indexed
joinUserRoomsGroups(s) ==
    LET userId == SocketUser(s)
        found == {RoomName("group", i) : i \in RoomsOf(userId, "group")}
    IN
    /\ conn[s].pc = "joinGroups"
    /\ socketRooms' = [socketRooms EXCEPT ![s] = @ \cup found]
    /\ roomUsers' = AddToRooms(roomUsers, found, userId)
    /\ conn' = [conn EXCEPT ![s].pc = "joinPrivate"]
    /\ out' = {}
    /\ UNCHANGED <<clock, ticks, nEvents, sockets, connectedUsers,
                   rateLimitStore, dbUsers, dbRooms, dbMessages, tasks, sweep,
                   accepted>>

\* joinUserRooms: the private rooms found, joined and indexed; then
\* broadcastUserJoined up to `await User.findOnlineUsers()`
joinUserRoomsPrivate(s) ==
    LET userId == SocketUser(s)
        found == {RoomName("private", i) : i \in RoomsOf(userId, "private")}
    IN
    /\ conn[s].pc = "joinPrivate"
    /\ socketRooms' = [socketRooms EXCEPT ![s] = @ \cup found]
    /\ roomUsers' = AddToRooms(roomUsers, found, userId)
    /\ conn' = [conn EXCEPT ![s].pc = "announce"]
    /\ out' = {}
    /\ UNCHANGED <<clock, ticks, nEvents, sockets, connectedUsers,
                   rateLimitStore, dbUsers, dbRooms, dbMessages, tasks, sweep,
                   accepted>>

\* broadcastOnlineUsers' emit, then the user_joined broadcast
broadcastUserJoined(s) ==
    /\ conn[s].pc = "announce"
    /\ out' = IoEmit("online_users", PCount(OnlineCount))
              \cup BroadcastEmit(s, "user_joined", PUser(SocketUser(s)))
    /\ conn' = [conn EXCEPT ![s].pc = "active"]
    /\ UNCHANGED <<clock, ticks, nEvents, sockets, socketRooms, connectedUsers,
                   rateLimitStore, roomUsers, dbUsers, dbRooms, dbMessages,
                   tasks, sweep,
                   accepted>>

-----------------------------------------------------------------------------
(* Handlers in flight *)

Task(kind, s, userId, pc, room, peer, msg, t) ==
    [kind |-> kind, sock |-> s, user |-> userId, pc |-> pc, room |-> room,
     peer |-> peer, msg |-> msg, t |-> t, content |-> 0]

Spawn(task) == tasks (+) SetToBag({task})

Finish(task) == tasks (-) SetToBag({task})

Step(task, next) == (tasks (-) SetToBag({task})) (+) SetToBag({next})

Running == BagToSet(tasks)

-----------------------------------------------------------------------------
(* Disconnect: handleDisconnect -> cleanupUserSession -> broadcastUserLeft *)

\* a cleanup that leaves the rate window of the user in the store
CleanupMemory_KeepsWindow(userId) ==
    /\ connectedUsers' = MapDelete(connectedUsers, userId)
    /\ rateLimitStore' = rateLimitStore
    /\ roomUsers' = RemoveFromRooms(roomUsers, DOMAIN roomUsers, userId)

\* the in-memory part of cleanupUserSession
CleanupMemory(userId) ==
    /\ connectedUsers' = MapDelete(connectedUsers, userId)
    /\ rateLimitStore' = FnDelete(rateLimitStore, userId)
    /\ roomUsers' = RemoveFromRooms(roomUsers, DOMAIN roomUsers, userId)

\* the transport closes; the disconnect handler, when registered, runs up to
\* `await User.findById(userId)`
Disconnect(s) ==
    /\ s \in sockets
    /\ sockets' = sockets \ {s}
    /\ socketRooms' = [socketRooms EXCEPT ![s] = {}]
    /\ tasks' = IF HandlersSet(s)
                THEN Spawn(Task("disconnect", s, SocketUser(s), "findUser", 0, "", 0, 0))
                ELSE tasks
    /\ out' = {}
    /\ UNCHANGED <<clock, ticks, nEvents, conn, connectedUsers, rateLimitStore,
                   roomUsers, dbUsers, dbRooms, dbMessages, sweep,
                   accepted>>

\* cleanupUserSession: the user found, updateLastSeen called
cleanupFindUser(task) ==
    /\ task.kind = "disconnect" /\ task.pc = "findUser"
    /\ tasks' = Step(task, [task EXCEPT !.pc = "updateLastSeen", !.t = clock])
    /\ out' = {}
    /\ UNCHANGED <<clock, ticks, nEvents, sockets, conn, socketRooms,
                   connectedUsers, rateLimitStore, roomUsers, dbUsers, dbRooms,
                   dbMessages, sweep,
                   accepted>>

\* cleanupUserSession: the save done, memory cleaned; broadcastUserLeft up to
\* `await User.findOnlineUsers()`.  The task's msg notes, for the properties,
\* whether the user had a presence entry when the cleanup ran.
cleanupUserSession(task) ==
    /\ task.kind = "disconnect" /\ task.pc = "updateLastSeen"
    /\ dbUsers' = [dbUsers EXCEPT ![task.user] = updateLastSeen(task.t)]
    /\ CleanupMemory(task.user)
    /\ sweep' = [sweep EXCEPT !.seen = @ \ {task.user}]
    /\ tasks' = Step(task, [task EXCEPT !.pc = "findOnline", !.t = 0,
                                        !.msg = IF MapHas(connectedUsers, task.user)
                                                THEN 1 ELSE 0])
    /\ out' = {}
    /\ UNCHANGED <<clock, ticks, nEvents, sockets, conn, socketRooms, dbRooms,
                   dbMessages,
                   accepted>>

\* cleanupUserSession: `await User.findById(userId)` rejects.  The catch
\* block of cleanupUserSession logs, the statements that clean the memory are
\* skipped, and handleDisconnect goes on to broadcastUserLeft
cleanupFindUserFails(task) ==
    /\ task.kind = "disconnect" /\ task.pc = "findUser"
    /\ tasks' = Step(task, [task EXCEPT !.pc = "findOnline"])
    /\ out' = {}
    /\ UNCHANGED <<clock, ticks, nEvents, sockets, conn, socketRooms,
                   connectedUsers, rateLimitStore, roomUsers, dbUsers, dbRooms,
                   dbMessages, sweep, accepted>>

\* cleanupUserSession: `await user.updateLastSeen()` rejects: nothing is
\* written, and the catch block is reached as above
cleanupUpdateFails(task) ==
    /\ task.kind = "disconnect" /\ task.pc = "updateLastSeen"
    /\ tasks' = Step(task, [task EXCEPT !.pc = "findOnline", !.t = 0])
    /\ out' = {}
    /\ UNCHANGED <<clock, ticks, nEvents, sockets, conn, socketRooms,
                   connectedUsers, rateLimitStore, roomUsers, dbUsers, dbRooms,
                   dbMessages, sweep, accepted>>

\* broadcastUserLeft: the online_users snapshot, then user_left
broadcastUserLeft(task) ==
    /\ task.kind = "disconnect" /\ task.pc = "findOnline"
    /\ out' = IoEmit("online_users", PCount(OnlineCount))
              \cup IoEmit("user_left", PUser(task.user))
    /\ tasks' = Finish(task)
    /\ UNCHANGED <<clock, ticks, nEvents, sockets, conn, socketRooms,
                   connectedUsers, rateLimitStore, roomUsers, dbUsers, dbRooms,
                   dbMessages, sweep,
                   accepted>>

-----------------------------------------------------------------------------
(* Message content.  A string is `pad` white-space characters around `len`  *)
(* other characters; String.prototype.trim keeps the `len` characters.      *)

Str(pad, len) == [type |-> "string", pad |-> pad, len |-> len]

\* a value that is no string: a missing field, or a number
NotStr(type) == [type |-> type, pad |-> 0, len |-> 0]

Length(content) == content.pad + content.len

Trim(content) == [content EXCEPT !.pad = 0]

\* !content: undefined and the empty string are falsy (the number sent is not 0)
Falsy(content) ==
    \/ content.type = "undefined"
    \/ content.type = "string" /\ Length(content) = 0

validateMessage(content) ==
    IF Falsy(content) \/ content.type # "string"
    THEN [valid |-> FALSE, error |-> "Message content is required"]
    ELSE IF Length(Trim(content)) = 0
    THEN [valid |-> FALSE, error |-> "Message cannot be empty"]
    ELSE IF Length(Trim(content)) > MESSAGE_MAX_LENGTH
    THEN [valid |-> FALSE, error |-> "Message too long"]
    ELSE [valid |-> TRUE, error |-> ""]

\* the payload of an inbound event; `present` is false when the client sent none
Data(content, chatId, recipientId) ==
    [present |-> TRUE, content |-> content, chatId |-> chatId,
     recipientId |-> recipientId]

NoData == [present |-> FALSE, content |-> NotStr("undefined"), chatId |-> NoRoom,
           recipientId |-> ""]

-----------------------------------------------------------------------------
(* Rate Limiter *)

\* the window of checkRateLimit after its reset and its pruning at `now`
Pruned(userLimit, now) ==
    LET expired == now - userLimit.lastReset > RATE_LIMIT_WINDOW
        kept == IF expired THEN <<>> ELSE userLimit.messages
    IN  [messages |-> SelectSeq(kept, LAMBDA ts : now - ts < RATE_LIMIT_WINDOW),
         lastReset |-> IF expired THEN now ELSE userLimit.lastReset]

\* a limiter that records the time of a call it denies
checkRateLimit_RecordsDenied(store, userId, now) ==
    IF userId \notin DOMAIN store
    THEN [allowed |-> TRUE, store |-> store]
    ELSE LET userLimit == Pruned(store[userId], now) IN
         [allowed |-> Len(userLimit.messages) < RATE_LIMIT_MAX_MESSAGES,
          store |-> [store EXCEPT ![userId] =
                        [userLimit EXCEPT !.messages = Append(@, now)]]]

\* checkRateLimit(userId) at Date.now() = now: its result and the store it leaves
checkRateLimit(store, userId, now) ==
    IF userId \notin DOMAIN store
    THEN [allowed |-> TRUE, store |-> store]
    ELSE LET userLimit == Pruned(store[userId], now) IN
         IF Len(userLimit.messages) >= RATE_LIMIT_MAX_MESSAGES
         THEN [allowed |-> FALSE, store |-> [store EXCEPT ![userId] = userLimit]]
         ELSE [allowed |-> TRUE,
               store |-> [store EXCEPT ![userId] =
                             [userLimit EXCEPT !.messages = Append(@, now)]]]

-----------------------------------------------------------------------------
(* Messages *)

\* new Message({content, sender, chatType, chatRoom}); chatRoom is NoRoom for
\* world chat, and the content is kept as the length of content.trim()
Message(sender, chatType, chatRoom, content) ==
    [sender |-> sender, chatType |-> chatType, chatRoom |-> chatRoom,
     content |-> content]

\* the handler of a send holds the content of its event: content.trim(), kept
\* as its length
Send(task, data) == [task EXCEPT !.content = Length(Trim(data.content))]

transformMessage(id, message, currentUserId, chatId) ==
    [id |-> id, senderId |-> message.sender, chatType |-> message.chatType,
     chatId |-> chatId, isOwnMessage |-> message.sender = currentUserId]

updateUserActivity(cu, userId, now) ==
    IF MapHas(cu, userId)
    THEN MapSet(cu, [MapGet(cu, userId) EXCEPT !.lastActivity = now,
                                               !.messageCount = @ + 1])
    ELSE cu

\* a head that validates the content before it consults the rate limiter
SendHead_ValidateFirst(s, data) ==
    IF ~data.present THEN "throw"
    ELSE IF ~validateMessage(data.content).valid THEN "invalid"
    ELSE IF ~checkRateLimit(rateLimitStore, SocketUser(s), clock).allowed THEN "rate"
    ELSE "ok"

\* what the head shared by the three send handlers does with an event:
\* destructuring, then checkRateLimit, then validateMessage
SendHead(s, data) ==
    IF ~data.present THEN "throw"
    ELSE IF ~checkRateLimit(rateLimitStore, SocketUser(s), clock).allowed THEN "rate"
    ELSE IF ~validateMessage(data.content).valid THEN "invalid"
    ELSE "ok"

\* the error a send handler emits for an event its head rejects
HeadError(s, data) ==
    CASE SendHead(s, data) = "throw" ->
            SocketEmit(s, "error", PError("Failed to send message", ""))
      [] SendHead(s, data) = "rate" ->
            SocketEmit(s, "error",
                PError("Too many messages. Please slow down.", "RATE_LIMIT"))
      [] SendHead(s, data) = "invalid" ->
            SocketEmit(s, "error", PError(validateMessage(data.content).error, ""))
      [] OTHER -> {}

\* the rate-limit store after the head: the check runs unless destructuring threw
HeadStore(s, data) ==
    IF data.present
    THEN checkRateLimit(rateLimitStore, SocketUser(s), clock).store
    ELSE rateLimitStore

\* an inbound event is dispatched to the handlers of a live connection
Receives(s) == s \in sockets /\ HandlersSet(s)

\* the head let the event pass its rate check
HeadAllowed(s, data) ==
    data.present /\ checkRateLimit(rateLimitStore, SocketUser(s), clock).allowed

\* bookkeeping of a send event: the count of events whose handler went on to
\* a durable operation, and the times of the checkRateLimit calls that
\* returned true within the last window
Counted(s, data) ==
    /\ nEvents' = IF SendHead(s, data) = "ok" THEN nEvents + 1 ELSE nEvents
    /\ accepted' =
          IF HeadAllowed(s, data)
          THEN [accepted EXCEPT ![SocketUser(s)] =
                   Append(SelectSeq(@, LAMBDA ts : clock - ts < RATE_LIMIT_WINDOW), clock)]
          ELSE accepted

\* handleWorldMessage up to `await message.save()`
handleWorldMessage(s, data) ==
    /\ Receives(s)
    /\ Counted(s, data)
    /\ rateLimitStore' = HeadStore(s, data)
    /\ out' = HeadError(s, data)
    /\ tasks' = IF SendHead(s, data) = "ok"
                THEN Spawn(Send(Task("world", s, SocketUser(s), "save", NoRoom, "", 0, 0), data))
                ELSE tasks
    /\ UNCHANGED <<clock, ticks, sockets, conn, socketRooms, connectedUsers,
                   roomUsers, dbUsers, dbRooms, dbMessages, sweep>>

\* the checks an HTTP send route makes on req.body.content before it persists;
\* content.trim() throws for a value that is truthy and no string
HttpHead(content) ==
    IF Falsy(content) THEN "400"
    ELSE IF content.type # "string" THEN "500"
    ELSE IF Length(Trim(content)) = 0 THEN "400"
    ELSE IF Length(Trim(content)) > MESSAGE_MAX_LENGTH THEN "400"
    ELSE "ok"

\* POST /world/messages up to `await message.save()`
postWorldMessage(userId, data) ==
    /\ nEvents' = nEvents + 1
    /\ IF HttpHead(data.content) = "ok"
       THEN /\ tasks' = Spawn(Send(Task("world", "http", userId, "save", NoRoom, "", 0, 0), data))
            /\ out' = {}
       ELSE /\ tasks' = tasks
            /\ out' = Response(userId, HttpHead(data.content), 0)
    /\ UNCHANGED <<clock, ticks, sockets, conn, socketRooms, connectedUsers,
                   rateLimitStore, roomUsers, dbUsers, dbRooms, dbMessages, sweep,
                   accepted>>

\* `await message.save()` done: the Message is durable, and the model's post-save
\* hook has set its room's lastMessage; the handler goes on to populate
messageSave(task) ==
    LET id == Len(dbMessages) + 1 IN
    /\ task.kind \in {"world", "group", "private"} /\ task.pc = "save"
    /\ dbMessages' = Append(dbMessages, Message(task.user, task.kind, task.room,
                                          task.content))
    /\ dbRooms' = IF task.room \in DOMAIN dbRooms
                  THEN [dbRooms EXCEPT ![task.room].lastMessage = id]
                  ELSE dbRooms
    /\ tasks' = Step(task, [task EXCEPT !.pc = "populate", !.msg = id])
    /\ out' = {}
    /\ UNCHANGED <<clock, ticks, nEvents, sockets, conn, socketRooms,
                   connectedUsers, rateLimitStore, roomUsers, dbUsers, sweep,
                   accepted>>

\* the catch block of a send: socket.emit("error", ...) of a socket handler,
\* res.status(500) of an HTTP route
SendFailure(task) ==
    IF task.sock = "http" THEN Response(task.user, "500", 0)
    ELSE SocketEmit(task.sock, "error", PError("Failed to send message", ""))

\* a send whose catch block runs and reports nothing
messageSaveFails_Silent(task) ==
    /\ task.kind \in {"world", "group", "private"} /\ task.pc = "save"
    /\ tasks' = Finish(task)
    /\ out' = {}
    /\ UNCHANGED <<clock, ticks, nEvents, sockets, conn, socketRooms,
                   connectedUsers, rateLimitStore, roomUsers, dbUsers, dbRooms,
                   dbMessages, sweep, accepted>>

\* `await message.save()` rejects: nothing is stored, the post-save hook does
\* not run, and control passes to the catch block of the send
messageSaveFails(task) ==
    /\ task.kind \in {"world", "group", "private"} /\ task.pc = "save"
    /\ tasks' = Finish(task)
    /\ out' = SendFailure(task)
    /\ UNCHANGED <<clock, ticks, nEvents, sockets, conn, socketRooms,
                   connectedUsers, rateLimitStore, roomUsers, dbUsers, dbRooms,
                   dbMessages, sweep, accepted>>

\* a world send that emits and stays in flight, to emit again
worldMessage_KeepsTask(task) ==
    LET tm == transformMessage(task.msg, dbMessages[task.msg], task.user, NoRoom) IN
    /\ task.kind = "world" /\ task.pc = "populate"
    /\ out' = IoEmit("world_message", PMessage(tm))
    /\ connectedUsers' = connectedUsers
    /\ tasks' = tasks
    /\ UNCHANGED <<clock, ticks, nEvents, sockets, conn, socketRooms,
                   rateLimitStore, roomUsers, dbUsers, dbRooms, dbMessages, sweep,
                   accepted>>

\* handleWorldMessage / POST /world/messages after populate: transform, io.emit,
\* then updateUserActivity (socket) or the 201 response (HTTP)
worldMessage(task) ==
    LET tm == transformMessage(task.msg, dbMessages[task.msg], task.user, NoRoom) IN
    /\ task.kind = "world" /\ task.pc = "populate"
    /\ out' = IoEmit("world_message", PMessage(tm))
              \cup (IF task.sock = "http" THEN Response(task.user, "201", task.msg) ELSE {})
    /\ connectedUsers' = IF task.sock = "http" THEN connectedUsers
                         ELSE updateUserActivity(connectedUsers, task.user, clock)
    /\ tasks' = Finish(task)
    /\ UNCHANGED <<clock, ticks, nEvents, sockets, conn, socketRooms,
                   rateLimitStore, roomUsers, dbUsers, dbRooms, dbMessages, sweep,
                   accepted>>

\* `await message.populate(...)` done in a group or private send; the handler
\* sets chatRoom.lastMessage and awaits chatRoom.save()
messagePopulate(task) ==
    /\ task.kind \in {"group", "private"} /\ task.pc = "populate"
    /\ tasks' = Step(task, [task EXCEPT !.pc = "saveRoom"])
    /\ out' = {}
    /\ UNCHANGED <<clock, ticks, nEvents, sockets, conn, socketRooms,
                   connectedUsers, rateLimitStore, roomUsers, dbUsers, dbRooms,
                   dbMessages, sweep,
                   accepted>>

\* `await message.populate(...)` rejects: the Message is stored already, and
\* control passes to the catch block of the send
messagePopulateFails(task) ==
    /\ task.kind \in {"world", "group", "private"} /\ task.pc = "populate"
    /\ tasks' = Finish(task)
    /\ out' = SendFailure(task)
    /\ UNCHANGED <<clock, ticks, nEvents, sockets, conn, socketRooms,
                   connectedUsers, rateLimitStore, roomUsers, dbUsers, dbRooms,
                   dbMessages, sweep, accepted>>

\* `await chatRoom.save()` rejects in a group or private send: the Message is
\* stored already, and control passes to the catch block of the send
chatRoomSaveFails(task) ==
    /\ task.kind \in {"group", "private"} /\ task.pc = "saveRoom"
    /\ tasks' = Finish(task)
    /\ out' = SendFailure(task)
    /\ UNCHANGED <<clock, ticks, nEvents, sockets, conn, socketRooms,
                   connectedUsers, rateLimitStore, roomUsers, dbUsers, dbRooms,
                   dbMessages, sweep, accepted>>

-----------------------------------------------------------------------------
(* Group messages *)

\* chatRoomSchema.methods of models/ChatRoom.js
ChatRoomMethods ==
    {"addParticipant", "removeParticipant", "addAdmin", "removeAdmin",
     "hasParticipant", "updateLastActivity"}

hasParticipant(chatRoom, userId) == userId \in chatRoom.participants

\* chatRoom[method](userId) for a participancy method: calling a method the
\* schema does not define throws a TypeError
CallParticipantMethod(method, chatRoom, userId) ==
    IF method \notin ChatRoomMethods THEN "TypeError"
    ELSE IF hasParticipant(chatRoom, userId) THEN "true" ELSE "false"

\* handleGroupMessage: `!chatRoom || !chatRoom.isParticipant(userId)`
SocketGroupAccess(roomId, userId) ==
    IF roomId \notin DOMAIN dbRooms THEN "denied"
    ELSE CASE CallParticipantMethod("isParticipant", dbRooms[roomId], userId) = "TypeError"
                -> "throw"
           [] CallParticipantMethod("isParticipant", dbRooms[roomId], userId) = "false"
                -> "denied"
           [] OTHER -> "ok"

\* a route that looks the room up and goes on without looking at its participants
HttpGroupAccess_NoParticipantCheck(roomId, userId) ==
    IF roomId \notin DOMAIN dbRooms THEN "404" ELSE "ok"

\* POST /groups/:groupId/messages: 404 without the room, 403 without
\* chatRoom.participants.includes(req.user.id)
HttpGroupAccess(roomId, userId) ==
    IF roomId \notin DOMAIN dbRooms THEN "404"
    ELSE IF userId \notin dbRooms[roomId].participants THEN "403"
    ELSE "ok"

\* handleGroupMessage up to `await ChatRoom.findById(chatId)`
handleGroupMessage(s, data) ==
    /\ Receives(s)
    /\ Counted(s, data)
    /\ rateLimitStore' = HeadStore(s, data)
    /\ out' = HeadError(s, data)
    /\ tasks' = IF SendHead(s, data) = "ok"
                THEN Spawn(Send(Task("group", s, SocketUser(s), "findRoom", data.chatId, "", 0, 0), data))
                ELSE tasks
    /\ UNCHANGED <<clock, ticks, sockets, conn, socketRooms, connectedUsers,
                   roomUsers, dbUsers, dbRooms, dbMessages, sweep>>

\* POST /groups/:groupId/messages up to `await ChatRoom.findById(groupId)`
postGroupMessage(userId, data) ==
    /\ nEvents' = nEvents + 1
    /\ IF HttpHead(data.content) = "ok"
       THEN /\ tasks' = Spawn(Send(Task("group", "http", userId, "findRoom", data.chatId, "", 0, 0), data))
            /\ out' = {}
       ELSE /\ tasks' = tasks
            /\ out' = Response(userId, HttpHead(data.content), 0)
    /\ UNCHANGED <<clock, ticks, sockets, conn, socketRooms, connectedUsers,
                   rateLimitStore, roomUsers, dbUsers, dbRooms, dbMessages, sweep,
                   accepted>>

\* the room lookup done: the access check of the handler or of the route
groupAccess(task) ==
    LET access == IF task.sock = "http"
                  THEN HttpGroupAccess(task.room, task.user)
                  ELSE SocketGroupAccess(task.room, task.user)
    IN
    /\ task.kind = "group" /\ task.pc = "findRoom"
    /\ tasks' = IF access = "ok"
                THEN Step(task, [task EXCEPT !.pc = "save"])
                ELSE Finish(task)
    /\ out' = CASE access = "ok" -> {}
                [] access = "denied" ->
                      SocketEmit(task.sock, "error",
                          PError("Access denied to this group", "ACCESS_DENIED"))
                [] access = "throw" ->
                      SocketEmit(task.sock, "error", PError("Failed to send message", ""))
                [] OTHER -> Response(task.user, access, 0)
    /\ UNCHANGED <<clock, ticks, nEvents, sockets, conn, socketRooms,
                   connectedUsers, rateLimitStore, roomUsers, dbUsers, dbRooms,
                   dbMessages, sweep,
                   accepted>>

\* `await chatRoom.save()` done: lastMessage is durable; transform, emit to
\* the room, then updateUserActivity (socket) or the 201 response (HTTP)
groupMessage(task) ==
    LET tm == transformMessage(task.msg, dbMessages[task.msg], task.user, task.room) IN
    /\ task.kind = "group" /\ task.pc = "saveRoom"
    /\ dbRooms' = [dbRooms EXCEPT ![task.room].lastMessage = task.msg]
    /\ out' = RoomEmit(socketRooms, RoomName("group", task.room), "group_message",
                       PMessage(tm))
              \cup (IF task.sock = "http" THEN Response(task.user, "201", task.msg) ELSE {})
    /\ connectedUsers' = IF task.sock = "http" THEN connectedUsers
                         ELSE updateUserActivity(connectedUsers, task.user, clock)
    /\ tasks' = Finish(task)
    /\ UNCHANGED <<clock, ticks, nEvents, sockets, conn, socketRooms,
                   rateLimitStore, roomUsers, dbUsers, dbMessages, sweep,
                   accepted>>

-----------------------------------------------------------------------------
(* Private messages *)

\* ChatRoom.findOne({type: "private", participants: {$all: [a, b]}})
PrivateChats(a, b) ==
    {i \in DOMAIN dbRooms :
        dbRooms[i].type = "private" /\ {a, b} \subseteq dbRooms[i].participants}

\* findOne returns the first match
FirstOf(ids) == CHOOSE i \in ids : \A j \in ids : i <= j

\* new ChatRoom({type: "private", participants: [a, b], createdBy: a})
NewPrivateChat(a, b) ==
    [type |-> "private", participants |-> {a, b}, lastMessage |-> 0]

\* findUserSocket: the live socket of the user's presence entry, if any
findUserSocket(userId) ==
    IF MapHas(connectedUsers, userId)
    THEN {MapGet(connectedUsers, userId).socketId} \cap sockets
    ELSE {}

\* what a call of a socket utility hands back to the route that made it
Returned(name, value) == Event("caller", name, Payload(0, value, "", "", ""))

\* sendToUser(userId, event, data), as the HTTP routes call it through
\* socketUtils: the event is emitted on the socket findUserSocket returns and
\* the call returns true, or the call returns false
sendToUser(userId, event) ==
    /\ out' = {Event(s, event, Payload(0, FALSE, "", "", userId)) :
                  s \in findUserSocket(userId)}
              \cup {Returned("sendToUser", findUserSocket(userId) # {})}
    /\ UNCHANGED <<clock, ticks, nEvents, sockets, conn, socketRooms,
                   connectedUsers, rateLimitStore, roomUsers, dbUsers, dbRooms,
                   dbMessages, tasks, sweep, accepted>>

\* handlePrivateMessage up to `await User.findById(recipientId)`
handlePrivateMessage(s, data) ==
    LET self == SendHead(s, data) = "ok" /\ data.recipientId = SocketUser(s) IN
    /\ Receives(s)
    /\ Counted(s, data)
    /\ rateLimitStore' = HeadStore(s, data)
    /\ out' = IF self
              THEN SocketEmit(s, "error", PError("Cannot send message to yourself", ""))
              ELSE HeadError(s, data)
    /\ tasks' = IF SendHead(s, data) = "ok" /\ ~self
                THEN Spawn(Send(Task("private", s, SocketUser(s), "findRecipient", NoRoom,
                                data.recipientId, 0, 0), data))
                ELSE tasks
    /\ UNCHANGED <<clock, ticks, sockets, conn, socketRooms, connectedUsers,
                   roomUsers, dbUsers, dbRooms, dbMessages, sweep>>

\* the checks of POST /private/messages on req.body before its first query
HttpPrivateHead(userId, data) ==
    IF data.recipientId = "" \/ Falsy(data.content) THEN "400"
    ELSE IF HttpHead(data.content) # "ok" THEN HttpHead(data.content)
    ELSE IF data.recipientId = userId THEN "400"
    ELSE "ok"

\* POST /private/messages up to `await ChatRoom.findOne(...)`
postPrivateMessage(userId, data) ==
    /\ nEvents' = nEvents + 1
    /\ IF HttpPrivateHead(userId, data) = "ok"
       THEN /\ tasks' = Spawn(Send(Task("private", "http", userId, "findChat", NoRoom,
                                   data.recipientId, 0, 0), data))
            /\ out' = {}
       ELSE /\ tasks' = tasks
            /\ out' = Response(userId, HttpPrivateHead(userId, data), 0)
    /\ UNCHANGED <<clock, ticks, sockets, conn, socketRooms, connectedUsers,
                   rateLimitStore, roomUsers, dbUsers, dbRooms, dbMessages, sweep,
                   accepted>>

\* `await User.findById(recipientId)` done. The handler looks the chat up next;
\* the route, which looked first and found none, creates it next
findRecipient(task) ==
    /\ task.kind = "private" /\ task.pc = "findRecipient"
    /\ IF task.peer \in Users
       THEN /\ tasks' = Step(task, [task EXCEPT !.pc =
                            IF task.sock = "http" THEN "createChat" ELSE "findChat"])
            /\ out' = {}
       ELSE /\ tasks' = Finish(task)
            /\ out' = IF task.sock = "http"
                      THEN Response(task.user, "404", 0)
                      ELSE SocketEmit(task.sock, "error",
                               PError("Unable to create chat with this user", ""))
    /\ UNCHANGED <<clock, ticks, nEvents, sockets, conn, socketRooms,
                   connectedUsers, rateLimitStore, roomUsers, dbUsers, dbRooms,
                   dbMessages, sweep,
                   accepted>>

\* `await ChatRoom.findOne(...)` done: an existing chat is used; without one
\* the handler creates it, and the route first looks the recipient up
findPrivateChat(task) ==
    LET found == PrivateChats(task.user, task.peer) IN
    /\ task.kind = "private" /\ task.pc = "findChat"
    /\ tasks' = Step(task,
            IF found # {}
            THEN [task EXCEPT !.pc = "save", !.room = FirstOf(found)]
            ELSE [task EXCEPT !.pc =
                     IF task.sock = "http" THEN "findRecipient" ELSE "createChat"])
    /\ out' = {}
    /\ UNCHANGED <<clock, ticks, nEvents, sockets, conn, socketRooms,
                   connectedUsers, rateLimitStore, roomUsers, dbUsers, dbRooms,
                   dbMessages, sweep,
                   accepted>>

\* `await chatRoom.save()` of the new ChatRoom done; the Message is saved next
createPrivateChat(task) ==
    /\ task.kind = "private" /\ task.pc = "createChat"
    /\ dbRooms' = Append(dbRooms, NewPrivateChat(task.user, task.peer))
    /\ tasks' = Step(task, [task EXCEPT !.pc = "save", !.room = Len(dbRooms) + 1])
    /\ out' = {}
    /\ UNCHANGED <<clock, ticks, nEvents, sockets, conn, socketRooms,
                   connectedUsers, rateLimitStore, roomUsers, dbUsers,
                   dbMessages, sweep,
                   accepted>>

\* ensureUsersInPrivateRoom: both users indexed, their live sockets joined
ensureUsersInPrivateRoom(roomId, userId1, userId2) ==
    /\ roomUsers' = addUserToRoom(addUserToRoom(roomUsers, roomId, userId1),
                                  roomId, userId2)
    /\ socketRooms' = [s \in Sockets |->
            IF s \in findUserSocket(userId1) \cup findUserSocket(userId2)
            THEN socketRooms[s] \cup {roomId}
            ELSE socketRooms[s]]

\* `await chatRoom.save()` done: lastMessage is durable. The handler runs
\* ensureUsersInPrivateRoom, emits to the room and updates the activity; the
\* route emits to the room as it is and answers 201
privateMessage(task) ==
    LET tm == transformMessage(task.msg, dbMessages[task.msg], task.user, task.room)
        roomId == RoomName("private", task.room)
    IN
    /\ task.kind = "private" /\ task.pc = "saveRoom"
    /\ dbRooms' = [dbRooms EXCEPT ![task.room].lastMessage = task.msg]
    /\ IF task.sock = "http"
       THEN /\ UNCHANGED <<roomUsers, socketRooms, connectedUsers>>
            /\ out' = RoomEmit(socketRooms, roomId, "private_message", PMessage(tm))
                      \cup Response(task.user, "201", task.msg)
       ELSE /\ ensureUsersInPrivateRoom(roomId, task.user, task.peer)
            /\ out' = RoomEmit(socketRooms', roomId, "private_message", PMessage(tm))
            /\ connectedUsers' = updateUserActivity(connectedUsers, task.user, clock)
    /\ tasks' = Finish(task)
    /\ UNCHANGED <<clock, ticks, nEvents, sockets, conn, rateLimitStore, dbUsers,
                   dbMessages, sweep,
                   accepted>>

-----------------------------------------------------------------------------
(* Typing indicators, and the events whose handler is not defined *)

\* an exception no handler catches reaches process.on("uncaughtException"):
\* gracefulShutdown closes the servers, with them every connection, and the
\* process exits with the handlers it had in flight
Uncaught(name) ==
    /\ out' = {Event("process", "uncaughtException", PError(name, ""))}
    /\ sockets' = {}
    /\ socketRooms' = [s \in Sockets |-> {}]
    /\ conn' = [s \in Sockets |-> [conn[s] EXCEPT !.pc = "closed"]]
    /\ tasks' = EmptyBag
    /\ UNCHANGED <<clock, ticks, nEvents, connectedUsers, rateLimitStore,
                   roomUsers, dbUsers, dbRooms, dbMessages, sweep, accepted>>

\* the payload of typing_start / typing_stop
TypingData(chatType, chatId) == [present |-> TRUE, chatType |-> chatType, chatId |-> chatId]

NoTypingData == [present |-> FALSE, chatType |-> "", chatId |-> NoRoom]

\* socket.to(room).emit: the live connections that joined the room, but this one
ToRoomEmit(s, room, ev, p) == RoomEmit(socketRooms, room, ev, p) \ {Event(s, ev, p)}

\* the emit of handleTypingStart / handleTypingStop by chatType
TypingEmit(s, data, ev) ==
    LET p == Payload(0, FALSE, data.chatType, "", SocketUser(s)) IN
    IF data.chatType = "world" THEN BroadcastEmit(s, ev, p)
    ELSE IF data.chatType \in {"group", "private"} /\ data.chatId # NoRoom
         THEN ToRoomEmit(s, RoomName(data.chatType, data.chatId), ev, p)
         ELSE {}

\* the pending timers of handleTypingStart are never cleared. Each keeps, for
\* the record, whether a typing_stop (msg) or a later typing_start (t) of its
\* connection for its chat has been handled since it was set
SameChat(task, s, data) ==
    /\ task.kind = "typing" /\ task.sock = s
    /\ task.pc = data.chatType /\ task.room = data.chatId

Marked(task, s, data, how) ==
    IF ~SameChat(task, s, data) THEN task
    ELSE IF how = "stop" THEN [task EXCEPT !.msg = 1]
    ELSE [task EXCEPT !.t = 1]

RECURSIVE Copies(_, _)
Copies(bag, S) ==
    IF S = {} THEN 0
    ELSE LET x == CHOOSE y \in S : TRUE IN bag[x] + Copies(bag, S \ {x})

\* the bag of tasks with each timer of the chat marked
Noted(how, s, data) ==
    LET S == BagToSet(tasks) IN
    [r \in {Marked(x, s, data, how) : x \in S} |->
        Copies(tasks, {x \in S : Marked(x, s, data, how) = r})]

\* handleTypingStart: destructures data outside any try block, emits
\* user_typing and sets the 10 s timer that calls handleTypingStop
handleTypingStart(s, data) ==
    /\ Receives(s)
    /\ IF ~data.present
       THEN Uncaught("TypeError")
       ELSE /\ out' = TypingEmit(s, data, "user_typing")
            /\ tasks' = Noted("start", s, data)
                         (+) SetToBag({Task("typing", s, SocketUser(s), data.chatType,
                                            data.chatId, "", 0, 0)})
            /\ UNCHANGED <<clock, ticks, nEvents, sockets, conn, socketRooms,
                           connectedUsers, rateLimitStore, roomUsers, dbUsers,
                           dbRooms, dbMessages, sweep, accepted>>

\* handleTypingStop on a typing_stop event
handleTypingStop(s, data) ==
    /\ Receives(s)
    /\ IF ~data.present
       THEN Uncaught("TypeError")
       ELSE /\ out' = TypingEmit(s, data, "user_stopped_typing")
            /\ tasks' = Noted("stop", s, data)
            /\ UNCHANGED <<clock, ticks, nEvents, sockets, conn, socketRooms,
                           connectedUsers, rateLimitStore, roomUsers, dbUsers,
                           dbRooms, dbMessages, sweep, accepted>>

\* the timer of handleTypingStart fires: handleTypingStop(socket, data)
typingTimeout(task) ==
    /\ task.kind = "typing"
    /\ out' = TypingEmit(task.sock, TypingData(task.pc, task.room), "user_stopped_typing")
    /\ tasks' = Finish(task)
    /\ UNCHANGED <<clock, ticks, nEvents, sockets, conn, socketRooms,
                   connectedUsers, rateLimitStore, roomUsers, dbUsers, dbRooms,
                   dbMessages, sweep, accepted>>

\* the listener of ping: socket.emit("pong", {timestamp})
handlePing(s) ==
    /\ Receives(s)
    /\ out' = SocketEmit(s, "pong", PCount(clock))
    /\ UNCHANGED <<clock, ticks, nEvents, sockets, conn, socketRooms,
                   connectedUsers, rateLimitStore, roomUsers, dbUsers, dbRooms,
                   dbMessages, tasks, sweep, accepted>>

\* the events setupEventHandlers registers with a handler the module does
\* not define
UndefinedHandlers ==
    {"join_group", "leave_group", "message_read", "message_delivered",
     "set_status", "get_room_users"}

\* such an event arrives: the listener's call of the missing function throws
\* a ReferenceError
handleUndefined(s, ev) ==
    /\ Receives(s)
    /\ ev \in UndefinedHandlers
    /\ Uncaught("ReferenceError")

-----------------------------------------------------------------------------
(* Periodic reconciler: the CLEANUP_INTERVAL callback of setupPeriodicTasks *)

\* a test that passes over the entries whose socket is gone
NeedsCleanup_LiveOnly(entry, thr) ==
    entry.socketId \in sockets /\ entry.lastActivity < thr

\* a test by age alone
NeedsCleanup_IdleOnly(entry, thr) == entry.lastActivity < thr

\* `!socket || connection.lastActivity < threshold`
NeedsCleanup(entry, thr) ==
    entry.socketId \notin sockets \/ entry.lastActivity < thr

\* the loop over connectedUsers.entries(), resumed with the keys in `seen`
\* behind the iterator: it runs on to the first entry to clean up, where it
\* awaits cleanupUserSession, or to the end, where it awaits the count
SweepLoop(cu, seen, thr) ==
    LET rest == SelectSeq(cu, LAMBDA e : e.key \notin seen)
        hits == {i \in DOMAIN rest : NeedsCleanup(rest[i], thr)}
    IN  IF hits = {}
        THEN [pc |-> "count", cur |-> "", seen |-> {}]
        ELSE LET k == CHOOSE i \in hits : \A j \in hits : i <= j IN
             [pc |-> "findUser", cur |-> rest[k].key,
              seen |-> seen \cup {rest[i].key : i \in 1..k}]

\* the callback fires; it runs up to `await User.updateMany(...)`
sweepStart ==
    /\ sweep.pc = "idle"
    /\ clock - sweep.last >= CLEANUP_INTERVAL
    /\ sweep' = [sweep EXCEPT !.pc = "updateMany", !.last = clock,
                              !.thr = clock - OFFLINE_THRESHOLD]
    /\ out' = {}
    /\ UNCHANGED <<clock, ticks, nEvents, sockets, conn, socketRooms,
                   connectedUsers, rateLimitStore, roomUsers, dbUsers, dbRooms,
                   dbMessages, tasks,
                   accepted>>

\* the bulk update done: users online with lastSeen before the threshold are
\* marked offline; the loop over the presence entries starts
sweepUpdateMany ==
    LET next == SweepLoop(connectedUsers, {}, sweep.thr) IN
    /\ sweep.pc = "updateMany"
    /\ dbUsers' = [u \in Users |->
            IF dbUsers[u].isOnline /\ dbUsers[u].lastSeen < sweep.thr
            THEN [dbUsers[u] EXCEPT !.isOnline = FALSE, !.socketId = ""]
            ELSE dbUsers[u]]
    /\ sweep' = [sweep EXCEPT !.pc = next.pc, !.cur = next.cur, !.seen = next.seen]
    /\ out' = {}
    /\ UNCHANGED <<clock, ticks, nEvents, sockets, conn, socketRooms,
                   connectedUsers, rateLimitStore, roomUsers, dbRooms,
                   dbMessages, tasks,
                   accepted>>

\* cleanupUserSession of the sweep: the user found, updateLastSeen called
sweepFindUser ==
    /\ sweep.pc = "findUser"
    /\ sweep' = [sweep EXCEPT !.pc = "updateLastSeen", !.t = clock]
    /\ out' = {}
    /\ UNCHANGED <<clock, ticks, nEvents, sockets, conn, socketRooms,
                   connectedUsers, rateLimitStore, roomUsers, dbUsers, dbRooms,
                   dbMessages, tasks,
                   accepted>>

\* cleanupUserSession of the sweep: the save done, memory cleaned; the loop
\* goes on
sweepCleanup ==
    LET next == SweepLoop(connectedUsers', sweep.seen \ {sweep.cur}, sweep.thr) IN
    /\ sweep.pc = "updateLastSeen"
    /\ dbUsers' = [dbUsers EXCEPT ![sweep.cur] = updateLastSeen(sweep.t)]
    /\ CleanupMemory(sweep.cur)
    /\ sweep' = [sweep EXCEPT !.pc = next.pc, !.cur = next.cur, !.seen = next.seen,
                              !.t = 0,
                              !.evicted = IF MapHas(connectedUsers, sweep.cur)
                                          THEN @ + 1 ELSE @]
    /\ out' = {}
    /\ UNCHANGED <<clock, ticks, nEvents, sockets, conn, socketRooms, dbRooms,
                   dbMessages, tasks,
                   accepted>>

\* the count done: `currentOnlineCount !== connectedUsers.size` decides
\* whether broadcastOnlineUsers runs
sweepCount ==
    /\ sweep.pc = "count"
    /\ sweep' = [sweep EXCEPT !.pc = IF OnlineCount # Len(connectedUsers)
                                     THEN "findOnline" ELSE "idle",
                              !.evicted = IF OnlineCount # Len(connectedUsers)
                                          THEN @ ELSE 0]
    /\ out' = {}
    /\ UNCHANGED <<clock, ticks, nEvents, sockets, conn, socketRooms,
                   connectedUsers, rateLimitStore, roomUsers, dbUsers, dbRooms,
                   dbMessages, tasks,
                   accepted>>

\* broadcastOnlineUsers of the sweep
sweepBroadcast ==
    /\ sweep.pc = "findOnline"
    /\ out' = IoEmit("online_users", PCount(OnlineCount))
    /\ sweep' = [sweep EXCEPT !.pc = "idle", !.evicted = 0]
    /\ UNCHANGED <<clock, ticks, nEvents, sockets, conn, socketRooms,
                   connectedUsers, rateLimitStore, roomUsers, dbUsers, dbRooms,
                   dbMessages, tasks,
                   accepted>>

-----------------------------------------------------------------------------
(* Time *)

Tick(d) ==
    /\ clock' = clock + d
    /\ ticks' = ticks + 1
    /\ out' = {}
    /\ UNCHANGED <<nEvents, sockets, conn, socketRooms, connectedUsers,
                   rateLimitStore, roomUsers, dbUsers, dbRooms, dbMessages,
                   tasks, sweep,
                   accepted>>

-----------------------------------------------------------------------------
(* Specifications.  Each composes the steps above for one scenario: the      *)
(* connections that are opened, the events and requests clients send, and   *)
(* how far the clock moves.                                                 *)

\* handleConnection of the connections in S
Life(S) ==
    \E s \in S :
        \/ Connect(s)
        \/ initializeUserSession(s)
        \/ joinUserRoomsGroups(s)
        \/ joinUserRoomsPrivate(s)
        \/ broadcastUserJoined(s)

\* the transport of a connection in S closes
Drop(S) == \E s \in S : BagCardinality(tasks) < MaxTasks /\ Disconnect(s)

DisconnectSteps ==
    \/ \E task \in Running : cleanupFindUser(task)
    \/ \E task \in Running : cleanupUserSession(task)
    \/ \E task \in Running : broadcastUserLeft(task)

WorldSteps ==
    \/ \E task \in Running : messageSave(task)
    \/ \E task \in Running : worldMessage(task)

GroupSteps ==
    \/ \E task \in Running : messagePopulate(task)
    \/ \E task \in Running : groupMessage(task)

PrivateSteps ==
    \/ \E task \in Running : findRecipient(task)
    \/ \E task \in Running : findPrivateChat(task)
    \/ \E task \in Running : createPrivateChat(task)
    \/ \E task \in Running : privateMessage(task)

Sweep ==
    \/ sweepStart
    \/ sweepUpdateMany
    \/ sweepFindUser
    \/ sweepCleanup
    \/ sweepCount
    \/ sweepBroadcast

Clock(steps) == \E d \in steps : ticks < MaxTicks /\ Tick(d)

\* room for one more handler in flight
Room(n) == BagCardinality(tasks) < MaxTasks /\ nEvents < n

-----------------------------------------------------------------------------
(* SpecBurst: one connection sends as fast as it likes.  Most of its events *)
(* carry content the handler rejects after the rate check, so that the      *)
(* window fills without a durable message for each of its entries.          *)

BurstSteps == {RATE_LIMIT_WINDOW - 1, RATE_LIMIT_WINDOW}

\* content that validateMessage rejects, and content that it accepts
Rejected == {Data(Str(1, 0), NoRoom, NoUser)}

Valid == {Data(Str(1, 1), NoRoom, NoUser), Data(Str(0, MESSAGE_MAX_LENGTH), 1, "u2")}

\* a send event of connection s with payload data
SendEvent(s, data) ==
    \/ handleWorldMessage(s, data)
    \/ handleGroupMessage(s, data)
    \/ handlePrivateMessage(s, data)

\* the client sends once its connection is set up, and sends its next event
\* when the handler of the last one is done; MaxBurst of its events carry
\* content that validates
BurstReady(s, data) ==
    /\ conn[s].pc = "active"
    /\ tasks = EmptyBag
    /\ nEvents < MaxBurst \/ SendHead(s, data) # "ok"

BurstSends ==
    \/ \E data \in Rejected \cup Valid : BurstReady("s1", data) /\ handleWorldMessage("s1", data)
    \/ \E data \in Rejected \cup Valid : BurstReady("s1", data) /\ handleGroupMessage("s1", data)
    \/ \E data \in Rejected \cup Valid : BurstReady("s1", data) /\ handlePrivateMessage("s1", data)

InitBurst == Init /\ dbRooms[1].participants = {"u1"}

NextBurst ==
    \/ Life({"s1"})
    \/ BurstSends
    \/ WorldSteps
    \/ \E task \in Running : groupAccess(task)
    \/ \E task \in Running : messagePopulate(task)
    \/ PrivateSteps
    \/ conn["s1"].pc = "active" /\ Clock(BurstSteps)

SpecBurst == InitBurst /\ [][NextBurst]_vars

-----------------------------------------------------------------------------
(* Spec: two users connect and send, over their connections and over the    *)
(* HTTP routes, messages with valid content to world chat, to the group of  *)
(* the initial state or to a group that does not exist, and to each other.  *)

ChatSockets == {"s1", "s2"}

\* the room ids clients name: the group of the initial state, and a room that
\* does not exist
ChatRooms == {1, 2}

ChatData == {Data(Str(0, 1), r, NoUser) : r \in ChatRooms}

ChatSends ==
    \/ \E s \in ChatSockets, data \in ChatData :
          Room(MaxEvents) /\ handleWorldMessage(s, data)
    \/ \E s \in ChatSockets, data \in ChatData :
          Room(MaxEvents) /\ handleGroupMessage(s, data)
    \/ \E userId \in Users, data \in ChatData :
          Room(MaxEvents) /\ postWorldMessage(userId, data)
    \/ \E userId \in Users, data \in ChatData :
          Room(MaxEvents) /\ postGroupMessage(userId, data)

Next ==
    \/ Life(ChatSockets)
    \/ ChatSends
    \/ WorldSteps
    \/ \E task \in Running : groupAccess(task)
    \/ GroupSteps

Spec == Init /\ [][Next]_vars

-----------------------------------------------------------------------------
(* SpecPrivate: the two users send private messages to each other, over     *)
(* their connections and over the HTTP route, before any private chat of    *)
(* the two exists.                                                          *)

PrivateData == {Data(Str(0, 1), NoRoom, p) : p \in Users}

PrivateSends ==
    \/ \E s \in ChatSockets, data \in PrivateData :
          Room(MaxEvents) /\ handlePrivateMessage(s, data)
    \/ \E userId \in Users, data \in PrivateData :
          Room(MaxEvents) /\ postPrivateMessage(userId, data)

NextPrivate ==
    \/ Life(ChatSockets)
    \/ PrivateSends
    \/ \E task \in Running : messageSave(task)
    \/ \E task \in Running : messagePopulate(task)
    \/ PrivateSteps

SpecPrivate == Init /\ [][NextPrivate]_vars

-----------------------------------------------------------------------------
(* SpecPresence: user u1 opens two connections, which close in any order     *)
(* while the clock moves and the reconciler runs; a group message is posted *)
(* to the group of u1 meanwhile.                                            *)

PresenceSockets == {"s1", "s3"}

PresenceSteps == {CLEANUP_INTERVAL, OFFLINE_THRESHOLD + 1}

PresenceSends ==
    \/ \E data \in {Data(Str(0, 1), 1, NoUser)} :
          Room(MaxPosts) /\ postGroupMessage("u1", data)
    \/ \E s \in PresenceSockets, data \in {Data(Str(0, 1), NoRoom, NoUser)} :
          Room(MaxPosts) /\ handleWorldMessage(s, data)

\* no handler is between two of its awaits
Quiet ==
    /\ tasks = EmptyBag
    /\ sweep.pc = "idle"
    /\ \A s \in Sockets : conn[s].pc \in {"none", "active"}

\* handlers take much less than a reconciler interval: the clock moves by
\* whole intervals while none is under way
NextPresence ==
    \/ Life(PresenceSockets)
    \/ \E s \in PresenceSockets : conn[s].pc = "active" /\ Drop({s})
    \/ DisconnectSteps
    \/ Sweep
    \/ Quiet /\ Clock(PresenceSteps)
    \/ PresenceSends
    \/ \E task \in Running : groupAccess(task)
    \/ WorldSteps
    \/ GroupSteps

InitPresence == Init /\ dbRooms[1].participants = Users

SpecPresence == InitPresence /\ [][NextPresence]_vars

-----------------------------------------------------------------------------
(* SpecSweep: connections of the two users are opened; some die while       *)
(* handleConnection still awaits setOnline, before a disconnect handler is  *)
(* registered, so that only the reconciler can clean up after them.  The    *)
(* others send world messages now and then.                                 *)

SweepSockets == {"s1", "s2"}

\* a connection dies before setupEventHandlers has run
Dies == \E s \in SweepSockets : conn[s].pc = "setOnline" /\ Disconnect(s)

SweepSends ==
    \E s \in SweepSockets, data \in {Data(Str(0, 1), NoRoom, NoUser)} :
        Room(MaxPosts) /\ handleWorldMessage(s, data)

NextSweep ==
    \/ Life(SweepSockets)
    \/ Dies
    \/ Sweep
    \/ Quiet /\ Clock(PresenceSteps)
    \/ SweepSends
    \/ WorldSteps

SpecSweep == InitPresence /\ [][NextSweep]_vars

-----------------------------------------------------------------------------
(* SpecAuth: clients present any credential; the connections that are let   *)
(* in are set up and close again.                                           *)

AuthSockets == {"s1", "s3"}

NextAuth ==
    \/ \E s \in AuthSockets, cred \in Credentials : Handshake(s, cred)
    \/ \E s \in AuthSockets : initializeUserSession(s)
    \/ \E s \in AuthSockets : joinUserRoomsGroups(s)
    \/ \E s \in AuthSockets : joinUserRoomsPrivate(s)
    \/ \E s \in AuthSockets : broadcastUserJoined(s)
    \/ Drop(AuthSockets)
    \/ DisconnectSteps

SpecAuth == InitPresence /\ [][NextAuth]_vars

-----------------------------------------------------------------------------
(* SpecEvents: the two users connect, and their clients send every event    *)
(* the handlers are registered for, with a payload or without one.          *)

EventData == {NoData, Data(Str(0, 1), 1, "u2")}

EventTyping == {NoTypingData, TypingData("world", NoRoom), TypingData("group", 1)}

\* the client sends its next event when the handler of the last one is done
EventReady(s) == conn[s].pc = "active" /\ tasks = EmptyBag /\ nEvents < MaxEvents

\* an inbound event of connection s
Inbound(s) ==
    \/ \E data \in EventData : EventReady(s) /\ handleWorldMessage(s, data)
    \/ \E data \in EventData : EventReady(s) /\ handleGroupMessage(s, data)
    \/ \E data \in EventData : EventReady(s) /\ handlePrivateMessage(s, data)
    \/ \E data \in EventTyping : EventReady(s) /\ handleTypingStart(s, data)
    \/ \E data \in EventTyping : EventReady(s) /\ handleTypingStop(s, data)
    \/ \E ev \in UndefinedHandlers : EventReady(s) /\ handleUndefined(s, ev)

NextEvents ==
    \/ Life(ChatSockets)
    \/ Inbound("s1")
    \/ \E task \in Running : typingTimeout(task)
    \/ WorldSteps
    \/ \E task \in Running : groupAccess(task)
    \/ \E task \in Running : messagePopulate(task)
    \/ PrivateSteps

SpecEvents == InitPresence /\ [][NextEvents]_vars

-----------------------------------------------------------------------------
(* SpecSave: the sends of Spec and SpecPrivate by connection s1 and by user  *)
(* u1 over HTTP, where the database may refuse to store a Message.          *)

SaveData == {Data(Str(0, 1), 1, "u2")}

SaveSends ==
    \/ \E data \in SaveData : Room(MaxEvents) /\ handleWorldMessage("s1", data)
    \/ \E data \in SaveData : Room(MaxEvents) /\ handlePrivateMessage("s1", data)
    \/ \E data \in SaveData : Room(MaxEvents) /\ postWorldMessage("u1", data)
    \/ \E data \in SaveData : Room(MaxEvents) /\ postGroupMessage("u1", data)

NextSave ==
    \/ Life(ChatSockets)
    \/ SaveSends
    \/ \E task \in Running : messageSaveFails(task)
    \/ WorldSteps
    \/ \E task \in Running : groupAccess(task)
    \/ GroupSteps
    \/ PrivateSteps

SpecSave == InitPresence /\ [][NextSave]_vars

-----------------------------------------------------------------------------
(* SpecNotify: user u1 opens two connections, which close in any order,     *)
(* while the routes that create a chat notify users u1 and u2.              *)

NotifyEvents == {"group_created", "private_chat_created"}

NextNotify ==
    \/ Life(PresenceSockets)
    \/ Drop(PresenceSockets)
    \/ DisconnectSteps
    \/ \E userId \in Users, event \in NotifyEvents : sendToUser(userId, event)

SpecNotify == InitPresence /\ [][NextNotify]_vars

-----------------------------------------------------------------------------
(* SpecOrder: connection s1 sends two world messages, the first of one      *)
(* character and the second of two, without waiting for the first to be     *)
(* handled.                                                                 *)

First == Data(Str(0, 1), NoRoom, NoUser)

Second == Data(Str(0, 2), NoRoom, NoUser)

OrderSends ==
    \/ nEvents = 0 /\ handleWorldMessage("s1", First)
    \/ nEvents = 1 /\ handleWorldMessage("s1", Second)

NextOrder ==
    \/ Life(ChatSockets)
    \/ OrderSends
    \/ WorldSteps

SpecOrder == InitPresence /\ [][NextOrder]_vars

-----------------------------------------------------------------------------
(* SpecSecond: user u1 opens connection s1 and then, at any time after it,  *)
(* a second connection s3; routes notify the user meanwhile.                *)

Setup(s) ==
    \/ initializeUserSession(s)
    \/ joinUserRoomsGroups(s)
    \/ joinUserRoomsPrivate(s)
    \/ broadcastUserJoined(s)

NextSecond ==
    \/ Connect("s1")
    \/ conn["s1"].pc # "none" /\ Connect("s3")
    \/ \E s \in PresenceSockets : Setup(s)
    \/ \E event \in NotifyEvents : sendToUser("u1", event)

SpecSecond == InitPresence /\ [][NextSecond]_vars

-----------------------------------------------------------------------------
(* SpecIdle: connection s1 of user u1 stays open and sends typing and ping  *)
(* events, and one world message, while the clock moves and the reconciler  *)
(* runs.                                                                    *)

IdleTyping == {TypingData("world", NoRoom), TypingData("group", 1)}

\* the client sends its next event when the timer of its last typing_start
\* has fired
IdleReady(s) == conn[s].pc = "active" /\ tasks = EmptyBag /\ sweep.pc = "idle"

\* an event of connection s that carries no message
Signal(s) ==
    \/ \E data \in IdleTyping : handleTypingStart(s, data)
    \/ \E data \in IdleTyping : handleTypingStop(s, data)
    \/ handlePing(s)

NextIdle ==
    \/ Life({"s1"})
    \/ IdleReady("s1") /\ Signal("s1")
    \/ IdleReady("s1") /\ nEvents < MaxPosts /\ handleWorldMessage("s1", First)
    \/ \E task \in Running : typingTimeout(task)
    \/ WorldSteps
    \/ Sweep
    \/ Quiet /\ Clock(PresenceSteps)

SpecIdle == InitPresence /\ [][NextIdle]_vars

-----------------------------------------------------------------------------
(* SpecTyping: the two users are connected; connection s1 starts and stops  *)
(* typing in world chat and in the group while timers of its earlier starts *)
(* are pending.                                                             *)

TypingEvents ==
    \/ \E data \in IdleTyping :
          BagCardinality(tasks) < MaxTasks /\ handleTypingStart("s1", data)
    \/ \E data \in IdleTyping : handleTypingStop("s1", data)

NextTyping ==
    \/ Life(ChatSockets)
    \/ TypingEvents
    \/ \E task \in Running : typingTimeout(task)

SpecTyping == InitPresence /\ [][NextTyping]_vars

-----------------------------------------------------------------------------
(* SpecHeal: the scenario of SpecSweep, with connections that die while the *)
(* clock has a step left to take, under the scheduling of the event loop:   *)
(* a handler that awaits a query or a save is resumed, time passes, and the *)
(* interval timer of the reconciler fires.                                  *)

NextHeal ==
    \/ Life(SweepSockets)
    \/ ticks < MaxTicks /\ Dies
    \/ Sweep
    \/ Quiet /\ Clock(PresenceSteps)
    \/ SweepSends
    \/ WorldSteps

SpecHeal ==
    /\ InitPresence
    /\ [][NextHeal]_vars
    /\ WF_vars(\E s \in SweepSockets : Setup(s))
    /\ WF_vars(WorldSteps)
    /\ WF_vars(Sweep)
    /\ WF_vars(Quiet /\ Clock(PresenceSteps))

-----------------------------------------------------------------------------
(* SpecIndex: addUserToRoom and removeUserFromRoom applied, in any order,   *)
(* to the Room Membership Index, for the users and a few rooms.             *)

IndexRooms == {RoomName(type, id) : type \in {"group", "private"}, id \in ChatRooms}

AddMember(roomId, userId) ==
    /\ roomUsers' = addUserToRoom(roomUsers, roomId, userId)
    /\ out' = {}
    /\ UNCHANGED <<clock, ticks, nEvents, sockets, conn, socketRooms,
                   connectedUsers, rateLimitStore, dbUsers, dbRooms, dbMessages,
                   tasks, sweep, accepted>>

RemoveMember(roomId, userId) ==
    /\ roomUsers' = removeUserFromRoom(roomUsers, roomId, userId)
    /\ out' = {}
    /\ UNCHANGED <<clock, ticks, nEvents, sockets, conn, socketRooms,
                   connectedUsers, rateLimitStore, dbUsers, dbRooms, dbMessages,
                   tasks, sweep, accepted>>

NextIndex ==
    \/ \E roomId \in IndexRooms, userId \in Users : AddMember(roomId, userId)
    \/ \E roomId \in IndexRooms, userId \in Users : RemoveMember(roomId, userId)

SpecIndex == InitPresence /\ [][NextIndex]_vars

-----------------------------------------------------------------------------
(* SpecReconnect: user u1 has connection s1; once s1 has closed, and while   *)
(* a cleanup of u1 (the disconnect handler of s1, or the reconciler) is      *)
(* between its awaits, u1 connects again as s3.                              *)

\* cleanupUserSession(userId) is awaiting its lookup or its write
CleanupPending(userId) ==
    \/ \E task \in Running :
          /\ task.kind = "disconnect" /\ task.user = userId
          /\ task.pc \in {"findUser", "updateLastSeen"}
    \/ sweep.pc \in {"findUser", "updateLastSeen"} /\ sweep.cur = userId

Reconnect == "s1" \notin sockets /\ CleanupPending("u1") /\ Connect("s3")

ReconnectSends ==
    \E s \in {"s1", "s3"}, data \in {Data(Str(0, 1), NoRoom, NoUser)} :
        Room(MaxPosts) /\ handleWorldMessage(s, data)

NextReconnect ==
    \/ Life({"s1"})
    \/ Reconnect
    \/ Setup("s3")
    \/ \E s \in {"s1", "s3"} : conn[s].pc = "active" /\ Drop({s})
    \/ DisconnectSteps
    \/ Sweep
    \/ Quiet /\ Clock(PresenceSteps)
    \/ ReconnectSends
    \/ WorldSteps

SpecReconnect == Init /\ [][NextReconnect]_vars

-----------------------------------------------------------------------------
(* SpecFail: connection s1 sends world and private messages while any of the *)
(* durable operations its handlers await may reject.                         *)

FailSends ==
    \/ \E data \in SaveData : Room(MaxEvents) /\ handleWorldMessage("s1", data)
    \/ \E data \in SaveData : Room(MaxEvents) /\ handlePrivateMessage("s1", data)

NextFail ==
    \/ Life({"s1"})
    \/ FailSends
    \/ \E task \in Running : messageSaveFails(task)
    \/ \E task \in Running : messagePopulateFails(task)
    \/ \E task \in Running : chatRoomSaveFails(task)
    \/ WorldSteps
    \/ \E task \in Running : messagePopulate(task)
    \/ PrivateSteps

SpecFail == Init /\ [][NextFail]_vars

-----------------------------------------------------------------------------
(* SpecCleanupFail: the two users connect and disconnect while the durable   *)
(* lookup and the durable write of cleanupUserSession may reject.            *)

NextCleanupFail ==
    \/ Life(ChatSockets)
    \/ \E s \in ChatSockets : conn[s].pc = "active" /\ Drop({s})
    \/ DisconnectSteps
    \/ \E task \in Running : cleanupFindUserFails(task)
    \/ \E task \in Running : cleanupUpdateFails(task)

SpecCleanupFail == InitPresence /\ [][NextCleanupFail]_vars

-----------------------------------------------------------------------------
(* Properties *)

\* the checkRateLimit calls of user u that returned true less than a window ago
AcceptedInWindow(u) ==
    SelectSeq(accepted[u], LAMBDA ts : clock - ts < RATE_LIMIT_WINDOW)

\* C1: within one session of a user, no interval of RATE_LIMIT_WINDOW
\* milliseconds holds more than RATE_LIMIT_MAX_MESSAGES checkRateLimit calls
\* that returned true
C1_AtMostMaxPerWindow ==
    \A u \in Users : Len(AcceptedInWindow(u)) <= RATE_LIMIT_MAX_MESSAGES

\* the error event of a rate denial on connection s
RateLimitError(s) ==
    Event(s, "error", PError("Too many messages. Please slow down.", "RATE_LIMIT"))

\* C8: when checkRateLimit denies a send event, the handler stops there: no
\* Message is persisted, no handler goes on towards a fan-out, and the
\* sender's connection alone gets one error, of type RATE_LIMIT; the error of
\* a validation failure does not carry that type
C8_RateDenialStopsHandler ==
    [][\A s \in Sockets, data \in Rejected \cup Valid :
          /\ (/\ ~checkRateLimit(rateLimitStore, SocketUser(s), clock).allowed
              /\ SendEvent(s, data))
                => /\ dbMessages' = dbMessages
                   /\ dbRooms' = dbRooms
                   /\ tasks' = tasks
                   /\ out' = {RateLimitError(s)}
          /\ (/\ checkRateLimit(rateLimitStore, SocketUser(s), clock).allowed
              /\ ~validateMessage(data.content).valid
              /\ SendEvent(s, data))
                => /\ out' # {}
                   /\ \A e \in out' : e.ev = "error" /\ e.p.typ # "RATE_LIMIT"
      ]_vars

\* a send event was denied with the window of its user full, after an event
\* with content that validates had been let through
C8_Denied ==
    /\ out = {RateLimitError("s1")}
    /\ Len(rateLimitStore["u1"].messages) = RATE_LIMIT_MAX_MESSAGES
    /\ nEvents > 0

\* C2: concurrent find-or-create calls for one pair of users yield one private
\* room: once they are done, the pair has exactly one
C2_OnePrivateRoomPerPair ==
    tasks = EmptyBag =>
        \A a, b \in Users : a # b => Cardinality(PrivateChats(a, b)) <= 1

\* the world_message events of a step's output
WorldEvents(events) == {e \in events : e.ev = "world_message"}

\* C3: a world message of user A is persisted with chatType world and sender
\* A; the event delivered to A carries isOwnMessage true, the event delivered
\* to any other user carries isOwnMessage false
C3_OwnFlagPerRecipient ==
    \A e \in WorldEvents(out) :
        /\ e.p.msg \in DOMAIN dbMessages
        /\ dbMessages[e.p.msg] =
              Message(e.p.who, "world", NoRoom, dbMessages[e.p.msg].content)
        /\ e.p.own = (SocketUser(e.to) = e.p.who)

\* the users a set of events is delivered to
Recipients(events) == {SocketUser(e.to) : e \in events}

\* the users with a presence entry whose connection is live
Reachable ==
    {u \in MapKeys(connectedUsers) : MapGet(connectedUsers, u).socketId \in sockets}

\* C4: a world message is delivered to every user that has a presence entry
\* at that moment (and a connection to deliver to), and to no connection
\* whose user has no presence entry
C4_WorldReachesPresence ==
    [][\A task \in Running :
          worldMessage(task) =>
              /\ Reachable \subseteq Recipients(WorldEvents(out'))
              /\ Recipients(WorldEvents(out')) \subseteq MapKeys(connectedUsers)
      ]_vars

\* the members of a room in the Room Membership Index
Members(room) == IF room \in DOMAIN roomUsers THEN roomUsers[room] ELSE {}

GroupEvents(events) == {e \in events : e.ev = "group_message"}

\* C5: a group message for room R is delivered to exactly the users that are
\* members of R in the Room Membership Index and have a presence entry (and a
\* connection to deliver to), and to nobody else
C5_GroupReachesConnectedMembers ==
    [][\A task \in Running :
          groupMessage(task) =>
              LET room == RoomName("group", task.room) IN
              /\ Members(room) \cap Reachable \subseteq Recipients(GroupEvents(out'))
              /\ Recipients(GroupEvents(out'))
                    \subseteq Members(room) \cap MapKeys(connectedUsers)
      ]_vars

\* C6: a send_group_message of a connected user for an existing room the user
\* is no participant of is answered with the ACCESS_DENIED error
C6_NonParticipantAccessDenied ==
    [][\A task \in Running :
          (/\ groupAccess(task)
           /\ task.sock \in sockets
           /\ task.room \in DOMAIN dbRooms
           /\ task.user \notin dbRooms[task.room].participants)
          => out' = {Event(task.sock, "error",
                           PError("Access denied to this group", "ACCESS_DENIED"))}
      ]_vars

\* C7: a group send of a user who is no participant in the durable record of
\* the room, over a connection or over HTTP, persists no Message and emits no
\* group_message: every durable group Message, and every group_message
\* emitted, is of a participant of its room
C7_GroupSendsOfParticipantsOnly ==
    /\ \A i \in DOMAIN dbMessages :
          dbMessages[i].chatType = "group" =>
              /\ dbMessages[i].chatRoom \in DOMAIN dbRooms
              /\ dbMessages[i].sender \in dbRooms[dbMessages[i].chatRoom].participants
    /\ \A e \in out :
          e.ev = "group_message" =>
              /\ e.p.msg \in DOMAIN dbMessages
              /\ dbMessages[e.p.msg].chatType = "group"
              /\ dbMessages[e.p.msg].sender = e.p.who

\* the route refused the group send of user u2, who is no participant of the
\* group, and nothing was persisted
C7_Refused ==
    /\ Response("u2", "403", 0) \subseteq out
    /\ "u2" \notin dbRooms[1].participants
    /\ dbMessages = <<>>

\* C9: registering a user's presence on connect and unregistering it on
\* disconnect leaves the connected-user count as it was before the
\* registration, and the user in no room member set: the cleanup of a
\* connection whose user had a presence entry before it registered leaves the
\* count alone, the cleanup of any other takes the one entry away again
C9_RegisterThenUnregister ==
    [][\A task \in Running :
          (/\ cleanupUserSession(task)
           /\ conn[task.sock].pc = "active"
           /\ MapHas(connectedUsers, task.user))
          => /\ Len(connectedUsers') =
                    Len(connectedUsers) - (IF conn[task.sock].was THEN 0 ELSE 1)
             /\ \A room \in DOMAIN roomUsers' : task.user \notin roomUsers'[room]
      ]_vars

\* C10: a disconnect cleanup for a user who is already unregistered changes no
\* in-memory state, performs no durable write and emits no user_left or
\* online_users broadcast
C10_SecondCleanupIsNoOp ==
    [][\A task \in Running :
          /\ (cleanupUserSession(task) /\ ~MapHas(connectedUsers, task.user))
                => /\ dbUsers' = dbUsers
                   /\ connectedUsers' = connectedUsers
                   /\ rateLimitStore' = rateLimitStore
                   /\ roomUsers' = roomUsers
          /\ (broadcastUserLeft(task) /\ task.msg = 0)
                => out' = {}
      ]_vars

\* user u has no live connection
Gone(u) == \A s \in sockets : SocketUser(s) # u

\* the loop of the reconciler over the presence entries comes to its end
SweepLoopEnds == sweep.pc \in {"updateMany", "updateLastSeen"} /\ sweep'.pc = "count"

BadCredential(cred) == cred.token # "valid" \/ ~cred.found

\* connection s has left no trace in the stores
NoTraceOf(s) ==
    /\ s \notin sockets
    /\ socketRooms[s] = {}
    /\ \A i \in DOMAIN connectedUsers : connectedUsers[i].socketId # s
    /\ \A u \in Users : dbUsers[u].socketId # s
    /\ \A task \in Running : task.sock # s

\* C12: a connection whose credential is missing, invalid, expired or of no
\* user is refused before handleConnection runs: the handshake creates no
\* presence entry, no rate window, no room membership and no durable write,
\* and nothing is created for the connection afterwards
C12_BadCredentialRefused ==
    [][/\ \A s \in Sockets, cred \in Credentials :
             (BadCredential(cred) /\ Handshake(s, cred)) =>
                 /\ conn'[s].pc = "refused"
                 /\ UNCHANGED <<sockets, socketRooms, connectedUsers,
                                rateLimitStore, roomUsers, dbUsers, tasks>>
       /\ \A s \in Sockets : conn[s].pc = "refused" =>
             conn'[s].pc = "refused" /\ NoTraceOf(s)'
      ]_vars

\* a connection of u1 was refused while another connection of u1 is set up
C12_Refused ==
    /\ conn["s3"].pc = "refused"
    /\ conn["s1"].pc = "active" /\ "s1" \in sockets
    /\ NoTraceOf("s3")

\* C13: whatever event a set-up connection sends, with whatever payload, a
\* failure in its handler ends as an error event to that connection alone:
\* the connection stays open and no exception goes uncaught
C13_HandlerFailuresContained ==
    [][\A s \in ChatSockets :
          (s \in sockets /\ Inbound(s)) =>
              /\ s \in sockets'
              /\ \A e \in out' :
                    /\ e.ev # "uncaughtException"
                    /\ e.ev = "error" => e.to = s
      ]_vars

MessageEvents(events) ==
    {e \in events : e.ev \in {"world_message", "group_message", "private_message"}}

\* C14: when storing the Message of a send fails, the sender is told
\* "Failed to send message" and no message event is emitted; every message
\* event that is emitted carries the id of a Message that is stored, of the
\* sender the event names
C14_FannedOutMessagesAreDurable ==
    /\ [](\A e \in MessageEvents(out) :
             /\ e.p.msg \in 1..Len(dbMessages)
             /\ dbMessages[e.p.msg].sender = e.p.who)
    /\ [][\A task \in Running :
             messageSaveFails(task) =>
                 /\ dbMessages' = dbMessages
                 /\ MessageEvents(out') = {}
                 /\ task.sock = "http" =>
                        Response(task.user, "500", 0) \subseteq out'
                 /\ task.sock \in sockets =>
                        \E e \in out' :
                            /\ e.to = task.sock /\ e.ev = "error"
                            /\ e.p.text = "Failed to send message"
         ]_vars

\* the save of a private message of connection s1 failed after an earlier
\* message was stored: s1 holds the error, and the store has the one Message
C14_SaveFailed ==
    /\ Len(dbMessages) = 1
    /\ \E e \in out : e.to = "s1" /\ e.ev = "error"
                       /\ e.p.text = "Failed to send message"
    /\ tasks = EmptyBag /\ nEvents = 2

\* C15: a send that is rejected for its content changes nothing: the rate
\* window of the sender, its message count and last activity and the stored
\* messages are as before, and only the sending connection is told
C15_InvalidContentChangesNothing ==
    [][\A s \in Sockets, data \in Rejected \cup Valid :
          (Receives(s) /\ SendHead(s, data) = "invalid" /\ SendEvent(s, data)) =>
              /\ rateLimitStore' = rateLimitStore
              /\ connectedUsers' = connectedUsers
              /\ dbMessages' = dbMessages /\ dbRooms' = dbRooms
              /\ out' # {} /\ \A e \in out' : e.to = s /\ e.ev = "error"
      ]_vars

\* the open connections of a user, and those of them whose setup is complete
OpenConnections(userId) == {s \in sockets : SocketUser(s) = userId}

LiveConnections(userId) == {s \in OpenConnections(userId) : conn[s].pc = "active"}

\* C16: sendToUser returns true exactly when the user has a live connection,
\* and then the event was emitted on a connection of the user; otherwise it
\* returns false.  A connection counts as live for "true only if" as soon as
\* it is open, and for "true if" once its setup is complete.
C16_SendToUserIffLive ==
    [][\A userId \in Users, event \in NotifyEvents :
          sendToUser(userId, event) =>
              /\ Returned("sendToUser", TRUE) \in out' \/ Returned("sendToUser", FALSE) \in out'
              /\ Returned("sendToUser", TRUE) \in out' =>
                    \E e \in out' : e.ev = event /\ e.to \in OpenConnections(userId)
              /\ LiveConnections(userId) # {} => Returned("sendToUser", TRUE) \in out'
      ]_vars

\* C17: the events of one connection are handled in the order they arrive:
\* the Message of the second is stored after the Message of the first, and
\* fanned out when the handler of the first is done
C17_ReceiptOrder ==
    /\ \A i \in DOMAIN dbMessages :
          dbMessages[i].content = Length(Second.content) =>
              \E j \in 1..(i - 1) : dbMessages[j].content = Length(First.content)
    /\ \A e \in WorldEvents(out) :
          dbMessages[e.p.msg].content = Length(Second.content) =>
              \A task \in Running : task.content # Length(First.content)

\* the connection has been registered by initializeUserSession
Registered(s) == conn[s].pc \notin {"none", "refused", "setOnline"}

\* C18: the presence registry never holds two entries of one user, and once a
\* user has opened a second connection and both are registered, the entry of
\* the user refers to the one opened last
C18_LastConnectionWins ==
    /\ \A i, j \in DOMAIN connectedUsers :
          connectedUsers[i].key = connectedUsers[j].key => i = j
    /\ Registered("s1") /\ Registered("s3") =>
          /\ MapHas(connectedUsers, "u1")
          /\ MapGet(connectedUsers, "u1").socketId = "s3"

C20_BroadcastIffEvicted ==
    [][sweepCount => (sweep'.pc = "findOnline" <=> sweep.evicted > 0)]_vars

\* C21: every event a set-up connection sends sets the last activity of its
\* user's presence entry to the time of the event
C21_EventsRefreshActivity ==
    [][\A s \in Sockets :
          (conn[s].pc = "active" /\ MapHas(connectedUsers, SocketUser(s)) /\ Signal(s)) =>
              /\ MapHas(connectedUsers', SocketUser(s))
              /\ MapGet(connectedUsers', SocketUser(s)).lastActivity = clock
      ]_vars

\* C22: the timer of a typing_start announces user_stopped_typing only if
\* the client has sent no typing_stop for that chat since, and only if no
\* later typing_start for that chat is under way
C22_TimerYieldsToClient ==
    [][\A task \in Running :
          (typingTimeout(task) /\ out' # {}) => task.msg = 0 /\ task.t = 0
      ]_vars

\* the stored messages of a room, and the sends to it that are in flight
MessagesOf(room) == {i \in DOMAIN dbMessages : dbMessages[i].chatRoom = room}

SendsTo(room) ==
    {task \in Running : task.kind \in {"group", "private"} /\ task.room = room}

\* C23: once no send to a room is in flight, the lastMessage of the room is
\* the Message of the room that was stored last
C23_LastMessageIsNewest ==
    \A room \in DOMAIN dbRooms :
        (SendsTo(room) = {} /\ MessagesOf(room) # {}) =>
            /\ dbRooms[room].lastMessage \in MessagesOf(room)
            /\ \A i \in MessagesOf(room) : i <= dbRooms[room].lastMessage

\* the set-up connection a user's presence entry refers to, if it is open
Connected(userId) == {s \in findUserSocket(userId) : conn[s].pc = "active"}

\* C24: when a private message has been stored and its send completes, over
\* the event or over the HTTP route, each participant of the chat that is
\* connected at that moment receives private_message
C24_PrivateReachesBoth ==
    [][\A task \in Running :
          privateMessage(task) =>
              \A userId \in dbRooms[task.room].participants :
                  \A s \in Connected(userId) :
                      \E e \in out' : e.to = s /\ e.ev = "private_message"
                                       /\ e.p.msg = task.msg
      ]_vars

\* the number of checkRateLimit calls of user u that would return true now
Capacity(u) ==
    RATE_LIMIT_MAX_MESSAGES - Len(Pruned(rateLimitStore[u], clock).messages)

\* C25: the sends a user may still make are RATE_LIMIT_MAX_MESSAGES less the
\* accepted sends of the user that are less than a window old: only the expiry
\* of a single entry frees capacity
C25_CapacityFreedByExpiryOnly ==
    \A u \in DOMAIN rateLimitStore :
        Capacity(u) = RATE_LIMIT_MAX_MESSAGES - Len(AcceptedInWindow(u))

\* C26: the users with a rate window are the users with a presence entry; no
\* window of a user is left once the disconnect cleanup or the reconciler
\* has removed the user's entry
C26_WindowsMatchPresence == DOMAIN rateLimitStore = MapKeys(connectedUsers)

\* the disconnect cleanup of u1 has removed the entry u1 had, and the window
\* with it
C26_Reclaimed ==
    /\ \E task \in Running :
          task.kind = "disconnect" /\ task.pc = "findOnline" /\ task.msg = 1
    /\ ~MapHas(connectedUsers, "u1")
    /\ "u1" \notin DOMAIN rateLimitStore

\* the presence entry of u refers to a connection that is not open
Dangling(u) ==
    MapHas(connectedUsers, u) /\ MapGet(connectedUsers, u).socketId \notin sockets

\* u has no presence entry and is in no member set of the index
Healed(u) ==
    /\ ~MapHas(connectedUsers, u)
    /\ \A roomId \in DOMAIN roomUsers : u \notin roomUsers[roomId]

\* C27: while the reconciler keeps running, a presence entry whose connection
\* is no longer open is eventually removed, and the room memberships of its
\* user with it, though no disconnect of the connection was ever handled
C27_DanglingEntriesHeal == \A u \in Users : Dangling(u) ~> Healed(u)

\* the sweep has just removed the entry of u1, whose connection had closed
\* before its disconnect handler was registered
C27_Swept ==
    /\ sweep.evicted > 0
    /\ "s1" \notin sockets /\ conn["s1"].pc # "none"
    /\ Healed("u1")

\* C28: an eviction by the reconciler does what an explicit disconnect does,
\* the user_left broadcast included: a sweep that has deleted a presence entry
\* is not done before user_left was sent
C28_EvictionAnnouncesUserLeft ==
    [][(sweep.pc # "idle" /\ sweep'.pc = "idle" /\ sweep.evicted > 0 /\ sockets # {}) =>
          \E e \in out' : e.ev = "user_left"
      ]_vars

\* the sends in flight that hold the stored Message m
Holding(m) ==
    {task \in Running : task.kind \in {"world", "group", "private"} /\ task.msg = m}

\* C29: a message event is emitted by the one send that stored its Message,
\* in the step that ends that send, and once to a connection: no connection
\* receives the event of a Message twice, and nothing is left to send it again
C29_AtMostOnceDelivery ==
    /\ [](\A m \in 1..Len(dbMessages) :
             /\ Cardinality(Holding(m)) <= 1
             /\ \A task \in Holding(m) : tasks[task] = 1)
    /\ [](\A task \in Running : Holding(task.msg) # {} => task.msg <= Len(dbMessages))
    /\ [][\A e \in MessageEvents(out') :
             /\ Holding(e.p.msg) # {}
             /\ Holding(e.p.msg)' = {}
             /\ \A f \in MessageEvents(out') :
                   (f.to = e.to /\ f.p.msg = e.p.msg) => f = e
         ]_vars

\* a private message has just gone to both connections, and its send is over
C29_Delivered ==
    /\ \A s \in ChatSockets : \E e \in out : e.to = s /\ e.ev = "private_message"
    /\ \A e \in MessageEvents(out) : Holding(e.p.msg) = {}
    /\ tasks = EmptyBag

\* C30: adding a user to a room twice, or removing it twice, leaves the index
\* as adding or removing it once does; no room of the index has an empty
\* member set, and removing the last member of a room removes its entry
C30_IndexOperations ==
    /\ \A roomId \in DOMAIN roomUsers : roomUsers[roomId] # {}
    /\ \A roomId \in IndexRooms, userId \in Users :
          LET added == addUserToRoom(roomUsers, roomId, userId)
              removed == removeUserFromRoom(roomUsers, roomId, userId)
          IN  /\ addUserToRoom(added, roomId, userId) = added
              /\ removeUserFromRoom(removed, roomId, userId) = removed
              /\ userId \in added[roomId]
              /\ roomId \in DOMAIN removed => userId \notin removed[roomId]
              /\ (roomId \in DOMAIN roomUsers /\ roomUsers[roomId] = {userId}) =>
                    roomId \notin DOMAIN removed

\* the index holds a room with both users and a room with u1 alone, and has
\* no entry for the other rooms
C30_Indexed ==
    /\ DOMAIN roomUsers = {RoomName("group", 1), RoomName("private", 2)}
    /\ roomUsers[RoomName("group", 1)] = Users
    /\ roomUsers[RoomName("private", 2)] = {"u1"}

\* the timestamps of a window that are less than RATE_LIMIT_WINDOW old
InWindow(userLimit) ==
    SelectSeq(userLimit.messages, LAMBDA ts : clock - ts < RATE_LIMIT_WINDOW)

\* C31: a send that checkRateLimit denies records nothing: the timestamps of
\* the sender that are inside the window are the same after it as before
C31_DenialRecordsNothing ==
    [][\A s \in Sockets, data \in Rejected \cup Valid :
          (Receives(s) /\ SendHead(s, data) = "rate" /\ SendEvent(s, data)) =>
              /\ SocketUser(s) \in DOMAIN rateLimitStore'
              /\ InWindow(rateLimitStore'[SocketUser(s)]) =
                    InWindow(rateLimitStore[SocketUser(s)])
      ]_vars

\* connection s1 has just been denied with a full window of entries made at
\* one time
C31_DeniedFull ==
    /\ RateLimitError("s1") \in out
    /\ Len(rateLimitStore["u1"].messages) = RATE_LIMIT_MAX_MESSAGES
    /\ \A i \in DOMAIN rateLimitStore["u1"].messages :
          rateLimitStore["u1"].messages[i] = clock

\* C32: a send_group_message of a user in the durable participant list of the
\* room, with content that validated and inside the rate limit, is not
\* answered with an error: its handler goes on to persist the Message it
\* fans out as group_message
C32_ParticipantGroupSendDelivered ==
    [][\A task \in Running :
          (/\ groupAccess(task)
           /\ task.sock \in sockets
           /\ task.room \in DOMAIN dbRooms
           /\ hasParticipant(dbRooms[task.room], task.user))
          => /\ \A e \in out' : e.ev # "error"
             /\ \E next \in DOMAIN tasks' :
                   /\ next.kind = "group" /\ next.sock = task.sock
                   /\ next.pc = "save"
      ]_vars

\* C33: every send event handled for a live connection is counted against a
\* rate window of its user: the user has a window when the handler runs, and
\* the window holds the time of the event once the handler has let it pass
C33_SendsAreCounted ==
    [][\A s \in Sockets,
          data \in Rejected \cup Valid \cup {Data(Str(0, 1), NoRoom, NoUser)} :
          (SendEvent(s, data) /\ SendHead(s, data) = "ok") =>
              /\ SocketUser(s) \in DOMAIN rateLimitStore
              /\ \E i \in DOMAIN rateLimitStore'[SocketUser(s)].messages :
                    rateLimitStore'[SocketUser(s)].messages[i] = clock
      ]_vars

\* C34: when a user has two connections and the older one disconnects, its
\* cleanup keeps what belongs to the newer one, which is set up and open: the
\* presence entry, the rate window and the room memberships of the user stay,
\* and the user stays online in the durable record
C34_OlderDisconnectKeepsNewer ==
    [][\A task \in Running, newer \in Sockets :
          (/\ cleanupUserSession(task)
           /\ newer # task.sock
           /\ newer \in LiveConnections(task.user)
           /\ MapHas(connectedUsers, task.user)
           /\ MapGet(connectedUsers, task.user).socketId = newer)
          => /\ MapHas(connectedUsers', task.user)
             /\ MapGet(connectedUsers', task.user).socketId = newer
             /\ task.user \in DOMAIN rateLimitStore'
             /\ roomUsers' = roomUsers
             /\ dbUsers'[task.user].isOnline
      ]_vars

\* C35: when a user has reconnected while a cleanup of the previous
\* connection was awaiting its durable lookup or write, the completion of that
\* cleanup, in the disconnect handler or in the reconciler, leaves the
\* presence entry and the rate window of the new connection in place and the
\* user durably online.  (A sweep may evict an entry that its own threshold
\* finds idle or dead; the reconciler's case is an entry that is neither.)
C35_CleanupSparesReconnected ==
    [][\A u \in Users :
          (/\ \/ \E task \in Running : task.user = u /\ cleanupUserSession(task)
              \/ /\ sweep.cur = u /\ sweepCleanup
                 /\ ~NeedsCleanup(MapGet(connectedUsers, u), sweep.thr)
           /\ MapHas(connectedUsers, u)
           /\ MapGet(connectedUsers, u).socketId = "s3"
           /\ "s3" \in sockets)
          => /\ MapHas(connectedUsers', u)
             /\ u \in DOMAIN rateLimitStore'
             /\ dbUsers'[u].isOnline
      ]_vars

\* every connection of u that was opened has run handleConnection to its end,
\* all are closed, and no disconnect handler of u is under way
SetupAndCleanupDone(u) ==
    /\ Gone(u)
    /\ \E s \in Sockets : SocketUser(s) = u /\ conn[s].pc = "active"
    /\ \A s \in Sockets :
          SocketUser(s) = u => conn[s].pc \in {"none", "refused", "active"}
    /\ \A task \in Running : task.kind = "disconnect" => task.user # u

\* C36: when a connection has closed while its setup was in progress, then
\* once the setup and the disconnect cleanup have both finished the user has
\* no presence entry and is in no room member set: a user all of whose
\* connections are closed, set up to the end and cleaned up has neither
C36_ClosedDuringSetupLeavesNothing ==
    \A u \in Users : SetupAndCleanupDone(u) => Healed(u)

\* C37: every user in a member set of the Room Membership Index has a
\* presence entry
C37_MembersArePresent ==
    \A roomId \in DOMAIN roomUsers :
        \A u \in roomUsers[roomId] : MapHas(connectedUsers, u)

\* u has a presence entry whose connection is open and whose last activity
\* is not older than the threshold thr
LiveAndRecent(u, thr) ==
    /\ MapHas(connectedUsers, u)
    /\ MapGet(connectedUsers, u).socketId \in sockets
    /\ MapGet(connectedUsers, u).lastActivity >= thr

\* C38: the bulk update of the reconciler does not set isOnline false for a
\* user whose presence entry has a live connection and recent activity: such
\* a user, online before the update, is online after it
C38_BulkUpdateSparesActive ==
    [][sweepUpdateMany =>
          \A u \in Users :
              (LiveAndRecent(u, sweep.thr) /\ dbUsers[u].isOnline)
                  => dbUsers'[u].isOnline
      ]_vars

\* C39: whenever a send handler reports "Failed to send message", no Message
\* of that send has been persisted
C39_FailureMeansNotPersisted ==
    [][\A task \in Running :
          (/\ task.kind \in {"world", "group", "private"}
           /\ task.sock \in Sockets
           /\ tasks' = Finish(task)
           /\ Event(task.sock, "error", PError("Failed to send message", "")) \in out')
          => /\ task.msg = 0
             /\ dbMessages' = dbMessages
      ]_vars

\* C40: the disconnect cleanup removes the presence entry, the rate window
\* and the room memberships of the user even when its durable lookup or its
\* mark-offline write fails
C40_CleanupSurvivesDurableFailure ==
    [][\A task \in Running :
          (cleanupFindUserFails(task) \/ cleanupUpdateFails(task))
          => /\ ~MapHas(connectedUsers', task.user)
             /\ task.user \notin DOMAIN rateLimitStore'
             /\ \A roomId \in DOMAIN roomUsers' : task.user \notin roomUsers'[roomId]
      ]_vars

====
